---- MODULE Spec2Model ----
(***************************************************************************)
(* A model of rslib/src/notetype/mod.rs: the Notetype validation pipeline  *)
(* (ensure_names_unique, reposition_sort_idx, prepare_for_update, the      *)
(* rename/removal propagation into templates) and the Collection methods   *)
(* that persist notetypes (add_notetype, update_notetype, get_notetype,    *)
(* get_notetype_by_name, remove_notetype).                                 *)
(*                                                                         *)
(* Strings are sequences of one-character strings, so that push('+'),      *)
(* replace('"', "") and the case folding of UniCase are computed.          *)
(* Option<u32> is an integer, with NoOrd (-1) for None.                    *)
(***************************************************************************)
EXTENDS Integers, Sequences, FiniteSets, TLC

VARIABLES
    nt,       \* the caller's in-memory Notetype (the &mut Notetype argument)
    nt0,      \* the same object as it was when the last call was entered
    pc,       \* position of the driver of the pure-function specifications
    res,      \* the Result of the last call, and what it observed
    storage,  \* col.storage: the persisted notetypes and collection config
    cache,    \* col.state.notetype_cache: NotetypeId -> Arc<Notetype>
    held,     \* an Arc<Notetype> a caller kept from an earlier get_notetype
    clock,    \* TimestampSecs::now()
    before    \* storage and cache as they were when the last call was entered

vars == <<nt, nt0, pc, res, storage, cache, held, clock, before>>

----------------------------------------------------------------------------
(* Bounds of the model. *)

MaxFields == 3
MaxTemplates == 2

(* Prior ordinals and sort_field_idx are u32; the model draws them from     *)
(* 0..MaxOrd, which reaches past the last index of the longest field list. *)
MaxOrd == 3

(* add_notetype is not called once MaxNotetypes notetypes are stored, and   *)
(* the clock stops at MaxClock.                                             *)
MaxNotetypes == 2
MaxClock == 2

----------------------------------------------------------------------------
(* Sequences and strings. *)

NoOrd == 0 - 1

(* The element of a singleton: The({e(x) : x \in {v}}) is e with x bound to *)
(* the value v, which is computed once.                                     *)
The(S) == CHOOSE x \in S : TRUE

Range(s) == {s[i] : i \in 1..Len(s)}

SeqsUpTo(S, n) == UNION {[1..k -> S] : k \in 0..n}

Min(a, b) == IF a < b THEN a ELSE b

Max(a, b) == IF a > b THEN a ELSE b

RECURSIVE StripChar(_, _)
StripChar(s, c) ==
    IF s = <<>> THEN <<>>
    ELSE IF Head(s) = c THEN StripChar(Tail(s), c)
    ELSE <<Head(s)>> \o StripChar(Tail(s), c)

(* UniCase: Unicode case folding of one character, on the model's alphabet. *)
FoldChar(c) ==
    CASE c = "A" -> "a"
      [] c = "B" -> "b"
      [] c = "F" -> "f"
      [] c = "Q" -> "q"
      [] c = "S" -> "s"
      [] c = "N" -> "n"
      [] OTHER -> c

UniCase(s) == [i \in 1..Len(s) |-> FoldChar(s[i])]

----------------------------------------------------------------------------
(* The data: NoteField, CardTemplate, CardRequirement, Notetype.            *)

(* NoteField { ord: Option<u32>, name }                                     *)
NoteField(name, ord) == [name |-> name, ord |-> ord]

(* NoteField::new, as add_field calls it: no prior ordinal.                 *)
NewNoteField(name) == NoteField(name, NoOrd)

(* CardTemplate { name, config: { q_format, a_format } }                    *)
CardTemplate(name, qfmt, afmt) ==
    [name |-> name, q_format |-> qfmt, a_format |-> afmt]

(* impl Default for Notetype *)
DefaultNotetype ==
    [id |-> 0, name |-> <<>>, mtime_secs |-> 0, usn |-> 0,
     fields |-> <<>>, templates |-> <<>>,
     config |-> [kind |-> "Standard", sort_field_idx |-> 0,
                 target_deck_id |-> 0, reqs |-> <<>>]]

FieldNames(n) == [i \in 1..Len(n.fields) |-> n.fields[i].name]

TemplateNames(n) == [i \in 1..Len(n.templates) |-> n.templates[i].name]

(* Pairwise distinct under UniCase. *)
DistinctFolded(names) ==
    \A i, j \in 1..Len(names) :
        i # j => UniCase(names[i]) # UniCase(names[j])

----------------------------------------------------------------------------
(* The template language (crate::template), which mod.rs uses through      *)
(* CardTemplate::parsed_question/parsed_answer, ParsedTemplate::            *)
(* requirements, rename_and_remove_fields and template_to_string.           *)
(*                                                                          *)
(* A format string is a sequence of tokens:                                 *)
(*   [t |-> "text",  f |-> chars]           literal text                    *)
(*   [t |-> "ref",   f |-> name, sp |-> b]  {{name}}, or {{ name }} if sp   *)
(*   [t |-> "open",  f |-> name]            {{#name}}                       *)
(*   [t |-> "nopen", f |-> name]            {{^name}}                       *)
(*   [t |-> "close", f |-> name]            {{/name}}                       *)
(* A parsed template is a sequence of nodes [t, f, kids], t being "text",   *)
(* "ref", "cond" or "ncond".                                                *)

TextTok(chars) == [t |-> "text", f |-> chars, sp |-> FALSE]

RefTok(name) == [t |-> "ref", f |-> name, sp |-> FALSE]

SpacedRefTok(name) == [t |-> "ref", f |-> name, sp |-> TRUE]

OpenTok(name) == [t |-> "open", f |-> name, sp |-> FALSE]

NegOpenTok(name) == [t |-> "nopen", f |-> name, sp |-> FALSE]

CloseTok(name) == [t |-> "close", f |-> name, sp |-> FALSE]

Node(t, f, kids) == [t |-> t, f |-> f, kids |-> kids]

(* No conditional is open: a value no field name equals. *)
TopLevel == <<"{{">>

ParseFailed == [ok |-> FALSE, nodes |-> <<>>, rest |-> <<>>]

(* The nodes up to the {{/open}} that closes the conditional `open` (or to  *)
(* the end of the input at the top level), and the tokens after it. A       *)
(* close tag that closes nothing, or another conditional, and a             *)
(* conditional left open, are parse errors.                                 *)
RECURSIVE ParseNodes(_, _)
ParseNodes(toks, open) ==
    IF toks = <<>>
    THEN IF open = TopLevel THEN [ok |-> TRUE, nodes |-> <<>>, rest |-> <<>>]
         ELSE ParseFailed
    ELSE LET h == Head(toks)
         IN  CASE h.t = "close" ->
                    IF h.f = open
                    THEN [ok |-> TRUE, nodes |-> <<>>, rest |-> Tail(toks)]
                    ELSE ParseFailed
               [] h.t \in {"open", "nopen"} ->
                    LET inner == ParseNodes(Tail(toks), h.f)
                        after == ParseNodes(inner.rest, open)
                        kind == IF h.t = "open" THEN "cond" ELSE "ncond"
                    IN  IF inner.ok /\ after.ok
                        THEN [ok |-> TRUE,
                              nodes |-> <<Node(kind, h.f, inner.nodes)>> \o after.nodes,
                              rest |-> after.rest]
                        ELSE ParseFailed
               [] OTHER ->
                    LET after == ParseNodes(Tail(toks), open)
                    IN  IF after.ok
                        THEN [ok |-> TRUE,
                              nodes |-> <<Node(h.t, h.f, <<>>)>> \o after.nodes,
                              rest |-> after.rest]
                        ELSE ParseFailed

(* ParsedTemplate::from_text(..).ok(): Option<ParsedTemplate> *)
ParseTemplate(fmt) ==
    LET r == ParseNodes(fmt, TopLevel) IN [ok |-> r.ok, nodes |-> r.nodes]

(* ParsedTemplate::template_to_string: the canonical source of the nodes. *)
RECURSIVE template_to_string(_)
template_to_string(nodes) ==
    IF nodes = <<>> THEN <<>>
    ELSE LET h == Head(nodes)
             here == CASE h.t = "text" -> <<TextTok(h.f)>>
                       [] h.t = "ref" -> <<RefTok(h.f)>>
                       [] h.t = "cond" ->
                            <<OpenTok(h.f)>> \o template_to_string(h.kids)
                                \o <<CloseTok(h.f)>>
                       [] OTHER ->
                            <<NegOpenTok(h.f)>> \o template_to_string(h.kids)
                                \o <<CloseTok(h.f)>>
         IN  here \o template_to_string(Tail(nodes))

(* HashMap<String, Option<String>>: a function from old names to the new    *)
(* name, or to Removed for None.                                            *)
Removed == <<"None">>

(* ParsedTemplate::rename_and_remove_fields: a reference to a removed field *)
(* is dropped, a conditional on a removed field is replaced by its          *)
(* children, a renamed key is replaced, everything else is kept.            *)
RECURSIVE rename_and_remove_fields(_, _)
rename_and_remove_fields(nodes, fields) ==
    IF nodes = <<>> THEN <<>>
    ELSE LET h == Head(nodes)
             kids == rename_and_remove_fields(h.kids, fields)
             here ==
                IF h.t = "text" THEN <<h>>
                ELSE IF h.f \notin DOMAIN fields
                     THEN <<Node(h.t, h.f, kids)>>
                ELSE IF fields[h.f] = Removed
                     THEN (IF h.t = "ref" THEN <<>> ELSE kids)
                ELSE <<Node(h.t, fields[h.f], kids)>>
         IN  here \o rename_and_remove_fields(Tail(nodes), fields)

(* Whether the template renders something when exactly the fields in       *)
(* nonempty are non-empty: literal text does not count.                     *)
RECURSIVE RendersWith(_, _)
RendersWith(nodes, nonempty) ==
    \E i \in 1..Len(nodes) :
        \/ nodes[i].t = "ref" /\ nodes[i].f \in nonempty
        \/ nodes[i].t = "cond" /\ nodes[i].f \in nonempty
              /\ RendersWith(nodes[i].kids, nonempty)
        \/ nodes[i].t = "ncond" /\ nodes[i].f \notin nonempty
              /\ RendersWith(nodes[i].kids, nonempty)

(* ParsedTemplate::requirements(&field_map): Any(ords) when some single     *)
(* field suffices, else All(ords) of the fields that cannot be left out,    *)
(* else None.                                                               *)
requirements(nodes, field_map) ==
    LET names == DOMAIN field_map
        any == {field_map[n] : n \in {m \in names : RendersWith(nodes, {m})}}
        all == {field_map[n] :
                   n \in {m \in names : ~RendersWith(nodes, names \ {m})}}
    IN  IF any # {} THEN [kind |-> "Any", ords |-> any]
        ELSE IF all # {} /\ RendersWith(nodes, names)
             THEN [kind |-> "All", ords |-> all]
        ELSE [kind |-> "None", ords |-> {}]

----------------------------------------------------------------------------
(* Notetype::ensure_names_unique *)

(* The inner loop: push '+' until the folded name is not in names. *)
RECURSIVE UniqueName(_, _)
(* The loop, were it to compare the name as written. *)
UniqueNameNoFold(name, names) ==
    IF name \notin names THEN name ELSE UniqueName(Append(name, "+"), names)

UniqueName(name, names) ==
    IF UniCase(name) \notin names THEN name
    ELSE UniqueName(Append(name, "+"), names)

(* The for loop over the items (fields or templates), names being the set   *)
(* of folded names already taken by the items before.                       *)
RECURSIVE UniqueItems(_, _)
UniqueItems(items, names) ==
    IF items = <<>> THEN <<>>
    ELSE LET name == UniqueName(Head(items).name, names)
         IN  <<[Head(items) EXCEPT !.name = name]>>
                 \o UniqueItems(Tail(items), names \cup {UniCase(name)})

ensure_names_unique(n) ==
    [n EXCEPT !.templates = UniqueItems(n.templates, {}),
              !.fields = UniqueItems(n.fields, {})]

----------------------------------------------------------------------------
(* Notetype::get_template: Vec::get(0) for a Cloze notetype, else           *)
(* Vec::get(card_ord), and NotFound for None.                               *)
get_template(n, card_ord) ==
    LET idx == IF n.config.kind = "Cloze" THEN 0 ELSE card_ord
    IN  IF idx < Len(n.templates)
        THEN [err |-> "Ok", value |-> n.templates[idx + 1]]
        ELSE [err |-> "NotFound", value |-> <<>>]

----------------------------------------------------------------------------
(* Notetype::reposition_sort_idx. The caller (prepare_for_update) has       *)
(* returned before it when fields is empty, so fields.len() - 1 >= 0.       *)

SortIdxHits(n) ==
    {i \in 1..Len(n.fields) : n.fields[i].ord = n.config.sort_field_idx}

(* find_map: the index of the first field whose ord is the sort index. *)
FirstHit(n) == CHOOSE i \in SortIdxHits(n) : \A j \in SortIdxHits(n) : i <= j

(* The function, were it to clamp without looking for the field. *)
reposition_sort_idxKeepOrd(n) ==
    [n EXCEPT !.config.sort_field_idx =
        Min(Max(n.config.sort_field_idx, 0), Len(n.fields) - 1)]

reposition_sort_idx(n) ==
    [n EXCEPT !.config.sort_field_idx =
        IF SortIdxHits(n) # {}
        THEN FirstHit(n) - 1
        ELSE Min(Max(n.config.sort_field_idx, 0), Len(n.fields) - 1)]

----------------------------------------------------------------------------
(* Results and options. *)

None == [some |-> FALSE]

Some(v) == [some |-> TRUE, v |-> v]

(* Result<()> of a method that takes &mut Notetype: the error kind ("Ok"    *)
(* for success), the notetype as the method leaves it, and what the error   *)
(* carries.                                                                 *)
Ok(n) == [err |-> "Ok", nt |-> n, info |-> <<>>]

Err(kind, n, info) == [err |-> kind, nt |-> n, info |-> info]

----------------------------------------------------------------------------
(* Notetype::normalize_names, fix_field_names, fix_template_names *)

(* ensure_string_in_nfc: canonical composition. On the model's alphabet the *)
(* only decomposed form is "a" followed by the combining mark "~", which    *)
(* composes to the single character written "a~".                           *)
RECURSIVE Nfc(_)
Nfc(s) ==
    IF s = <<>> THEN <<>>
    ELSE IF Len(s) >= 2 /\ s[1] = "a" /\ s[2] = "~"
         THEN <<"a~">> \o Nfc(SubSeq(s, 3, Len(s)))
    ELSE <<Head(s)>> \o Nfc(Tail(s))

normalize_names(n) ==
    [n EXCEPT !.name = Nfc(n.name),
              !.fields = [i \in 1..Len(n.fields) |->
                             [n.fields[i] EXCEPT !.name = Nfc(n.fields[i].name)]],
              !.templates = [i \in 1..Len(n.templates) |->
                             [n.templates[i] EXCEPT !.name = Nfc(n.templates[i].name)]]]

(* NoteField::fix_name / CardTemplate::fix_name under try_for_each: the     *)
(* disallowed character is removed from each name in turn, and the first    *)
(* name left empty ends the pass with InvalidInput.                         *)
RECURSIVE FixNames(_)
FixNames(items) ==
    IF items = <<>> THEN [ok |-> TRUE, items |-> <<>>]
    ELSE LET fixed == [Head(items) EXCEPT !.name = StripChar(Head(items).name, "\"")]
         IN  IF fixed.name = <<>>
             THEN [ok |-> FALSE, items |-> <<fixed>> \o Tail(items)]
             ELSE LET r == FixNames(Tail(items))
                  IN  [ok |-> r.ok, items |-> <<fixed>> \o r.items]

----------------------------------------------------------------------------
(* Notetype::parsed_templates, updated_requirements *)

parsed_templates(n) ==
    [i \in 1..Len(n.templates) |->
        [q |-> ParseTemplate(n.templates[i].q_format),
         a |-> ParseTemplate(n.templates[i].a_format)]]

(* field_map: name -> index; collect() keeps the last index of a name. *)
FieldMap(n) ==
    [name \in Range(FieldNames(n)) |->
        (CHOOSE i \in 1..Len(n.fields) :
            /\ n.fields[i].name = name
            /\ \A j \in 1..Len(n.fields) : n.fields[j].name = name => j <= i) - 1]

(* sort_unstable of the ordinals of a requirement. *)
RECURSIVE SortedSeq(_)
SortedSeq(S) ==
    IF S = {} THEN <<>>
    ELSE LET m == CHOOSE x \in S : \A y \in S : x <= y
         IN  <<m>> \o SortedSeq(S \ {m})

CardRequirement(ord, kind, field_ords) ==
    [card_ord |-> ord, kind |-> kind, field_ords |-> field_ords]

updated_requirements(n, parsed) ==
    [i \in 1..Len(parsed) |->
        IF parsed[i].q.ok
        THEN LET r == requirements(parsed[i].q.nodes, FieldMap(n))
             IN  CardRequirement(i - 1, r.kind, SortedSeq(r.ords))
        ELSE CardRequirement(i - 1, "None", <<>>)]

----------------------------------------------------------------------------
(* Notetype::renamed_and_removed_fields and                                 *)
(* update_templates_for_renamed_and_removed_fields                          *)

(* The fields of n that carry the prior ordinal of the field of current     *)
(* named key, under another name.                                           *)
Renamers(n, current, key) ==
    {i \in 1..Len(n.fields) :
        /\ n.fields[i].ord # NoOrd
        /\ n.fields[i].ord < Len(current.fields)
        /\ current.fields[n.fields[i].ord + 1].name = key
        /\ current.fields[n.fields[i].ord + 1].name # n.fields[i].name}

(* The function without the loop of lines 298-302. *)
renamed_and_removed_fieldsNoRemoved(n, current) ==
    LET renamed == {key \in Range(FieldNames(current)) : Renamers(n, current, key) # {}}
        last(S) == CHOOSE i \in S : \A j \in S : j <= i
    IN  [key \in renamed |-> n.fields[last(Renamers(n, current, key))].name]

renamed_and_removed_fields(n, current) ==
    LET remaining_ords == {n.fields[i].ord : i \in 1..Len(n.fields)} \ {NoOrd}
        renamed == {key \in Range(FieldNames(current)) : Renamers(n, current, key) # {}}
        removed == {current.fields[i].name :
                       i \in {j \in 1..Len(current.fields) : (j - 1) \notin remaining_ords}}
        last(S) == CHOOSE i \in S : \A j \in S : j <= i
    IN  [key \in renamed \cup removed |->
            IF key \in removed THEN Removed
            ELSE n.fields[last(Renamers(n, current, key))].name]

(* The function, were it to rewrite the question side only. *)
update_templatesQuestionOnly(n, fields, parsed) ==
    [n EXCEPT !.templates =
        [i \in 1..Len(n.templates) |->
            [n.templates[i] EXCEPT
                !.q_format =
                    IF parsed[i].q.ok
                    THEN template_to_string(rename_and_remove_fields(parsed[i].q.nodes, fields))
                    ELSE @]]]

update_templates_for_renamed_and_removed_fields(n, fields, parsed) ==
    [n EXCEPT !.templates =
        [i \in 1..Len(n.templates) |->
            [n.templates[i] EXCEPT
                !.q_format =
                    IF parsed[i].q.ok
                    THEN template_to_string(rename_and_remove_fields(parsed[i].q.nodes, fields))
                    ELSE @,
                !.a_format =
                    IF parsed[i].a.ok
                    THEN template_to_string(rename_and_remove_fields(parsed[i].a.nodes, fields))
                    ELSE @]]]

----------------------------------------------------------------------------
(* Notetype::prepare_for_update and prepare_for_adding *)

(* Lines 248-276: parse, fail on the first template with a missing parse,   *)
(* compute the requirements, propagate renames and removals, store the      *)
(* requirements.                                                            *)
(* The same, were only the question side to count as a missing parse. *)
ParseAndPropagateQuestionOnly(n, existing) ==
    LET parsed == parsed_templates(n)
        invalid == {i \in 1..Len(parsed) : ~parsed[i].q.ok}
        invalid_card_idx == (CHOOSE i \in invalid : \A j \in invalid : i <= j) - 1
        reqs == updated_requirements(n, parsed)
        fields == renamed_and_removed_fields(n, existing.v)
        rewritten ==
            IF existing.some /\ DOMAIN fields # {}
            THEN update_templates_for_renamed_and_removed_fields(n, fields, parsed)
            ELSE n
    IN  IF invalid # {}
        THEN Err("TemplateSaveError", n,
                 [notetype |-> n.name, ordinal |-> invalid_card_idx])
        ELSE Ok([rewritten EXCEPT !.config.reqs = reqs])

(* The same, were the templates rewritten whenever a prior notetype is      *)
(* given, the test of line 269 left out.                                    *)
ParseAndPropagateAlways(n, existing) ==
    LET parsed == parsed_templates(n)
        invalid == {i \in 1..Len(parsed) : ~parsed[i].q.ok \/ ~parsed[i].a.ok}
        invalid_card_idx == (CHOOSE i \in invalid : \A j \in invalid : i <= j) - 1
        reqs == updated_requirements(n, parsed)
        fields == renamed_and_removed_fields(n, existing.v)
        rewritten ==
            IF existing.some
            THEN update_templates_for_renamed_and_removed_fields(n, fields, parsed)
            ELSE n
    IN  IF invalid # {}
        THEN Err("TemplateSaveError", n,
                 [notetype |-> n.name, ordinal |-> invalid_card_idx])
        ELSE Ok([rewritten EXCEPT !.config.reqs = reqs])

ParseAndPropagate(n, existing) ==
    LET parsed == parsed_templates(n)
        invalid == {i \in 1..Len(parsed) : ~parsed[i].q.ok \/ ~parsed[i].a.ok}
        invalid_card_idx == (CHOOSE i \in invalid : \A j \in invalid : i <= j) - 1
        reqs == updated_requirements(n, parsed)
        fields == renamed_and_removed_fields(n, existing.v)
        rewritten ==
            IF existing.some /\ DOMAIN fields # {}
            THEN update_templates_for_renamed_and_removed_fields(n, fields, parsed)
            ELSE n
    IN  IF invalid # {}
        THEN Err("TemplateSaveError", n,
                 [notetype |-> n.name, ordinal |-> invalid_card_idx])
        ELSE Ok([rewritten EXCEPT !.config.reqs = reqs])

(* Lines 242-246, once the name is known not to be empty. *)
NormalizeAndParse(n, existing) ==
    LET normal == normalize_names(n)
        ff == FixNames(normal.fields)
        with_fields == [normal EXCEPT !.fields = ff.items]
        ft == FixNames(with_fields.templates)
        with_templates == [with_fields EXCEPT !.templates = ft.items]
    IN  IF ~ff.ok THEN Err("InvalidInput", with_fields, "Empty field name")
        ELSE IF ~ft.ok THEN Err("InvalidInput", with_templates, "Empty template name")
        ELSE ParseAndPropagate(
                 reposition_sort_idx(ensure_names_unique(with_templates)), existing)

(* The function without the check of lines 232-234. *)
prepare_for_updateNoEmptyCheck(n, existing) ==
    LET stripped == [n EXCEPT !.name = StripChar(n.name, "\"")]
    IN  IF n.fields = <<>> THEN Err("InvalidInput", n, "1 field required")
        ELSE IF stripped.name = <<>>
             THEN Err("InvalidInput", stripped, "Empty note type name")
        ELSE NormalizeAndParse(stripped, existing)

prepare_for_update(n, existing) ==
    LET stripped == [n EXCEPT !.name = StripChar(n.name, "\"")]
    IN  IF n.fields = <<>> THEN Err("InvalidInput", n, "1 field required")
        ELSE IF n.templates = <<>> THEN Err("InvalidInput", n, "1 template required")
        ELSE IF stripped.name = <<>>
             THEN Err("InvalidInput", stripped, "Empty note type name")
        ELSE NormalizeAndParse(stripped, existing)

prepare_for_adding(n) ==
    prepare_for_update(
        IF n.config.target_deck_id = 0 THEN [n EXCEPT !.config.target_deck_id = 1]
        ELSE n,
        None)

----------------------------------------------------------------------------
(* The storage layer behind col.storage: three tables keyed by NotetypeId,  *)
(* and the collection's configuration.                                      *)

Put(f, k, v) == [x \in DOMAIN f \cup {k} |-> IF x = k THEN v ELSE f[x]]

Del(f, k) == [x \in DOMAIN f \ {k} |-> f[x]]

(* Storage hands a notetype out with every field's ord set to its index. *)
WithOrds(fields) == [i \in 1..Len(fields) |-> NoteField(fields[i].name, i - 1)]

(* storage.get_notetype *)
storage_get_notetype(st, ntid) ==
    IF ntid \in DOMAIN st.notetypes
    THEN Some([id |-> ntid,
               name |-> st.notetypes[ntid].name,
               mtime_secs |-> st.notetypes[ntid].mtime_secs,
               usn |-> st.notetypes[ntid].usn,
               fields |-> IF ntid \in DOMAIN st.fields
                          THEN WithOrds(st.fields[ntid]) ELSE <<>>,
               templates |-> IF ntid \in DOMAIN st.templates
                             THEN st.templates[ntid] ELSE <<>>,
               config |-> st.notetypes[ntid].config])
    ELSE None

(* storage.get_notetype_id: the name column is compared without case. *)
storage_get_notetype_id(st, name) ==
    LET ids == {i \in DOMAIN st.notetypes :
                   UniCase(st.notetypes[i].name) = UniCase(name)}
    IN  IF ids = {} THEN None ELSE Some(CHOOSE i \in ids : \A j \in ids : i <= j)

(* storage.get_all_notetype_names: (id, name) pairs, in the order of ids. *)
storage_get_all_notetype_names(st) ==
    LET ids == SortedSeq(DOMAIN st.notetypes)
    IN  [i \in 1..Len(ids) |-> [id |-> ids[i], name |-> st.notetypes[ids[i]].name]]

storage_update_notetype_config(st, n) ==
    [st EXCEPT !.notetypes =
        Put(st.notetypes, n.id,
            [name |-> n.name, mtime_secs |-> n.mtime_secs, usn |-> n.usn,
             config |-> n.config])]

(* The rows of the fields table hold the position, not the prior ordinal. *)
storage_update_notetype_fields(st, ntid, fields) ==
    [st EXCEPT !.fields =
        Put(st.fields, ntid, [i \in 1..Len(fields) |-> NewNoteField(fields[i].name)])]

storage_update_notetype_templates(st, ntid, templates) ==
    [st EXCEPT !.templates = Put(st.templates, ntid, templates)]

(* storage.add_new_notetype: allocates an id no notetype has, writes the    *)
(* three tables, and sets nt.id.                                            *)
FreshId(st) ==
    CHOOSE i \in 1..(Cardinality(DOMAIN st.notetypes) + 1) :
        /\ i \notin DOMAIN st.notetypes
        /\ \A j \in 1..(i - 1) : j \in DOMAIN st.notetypes

storage_add_new_notetype(st, n) ==
    LET new == [n EXCEPT !.id = FreshId(st)]
    IN  [nt |-> new,
         storage |->
            storage_update_notetype_templates(
                storage_update_notetype_fields(
                    storage_update_notetype_config(st, new), new.id, new.fields),
                new.id, new.templates)]

(* storage.remove_notetype *)
storage_remove_notetype(st, ntid) ==
    [st EXCEPT !.notetypes = Del(st.notetypes, ntid),
               !.fields = Del(st.fields, ntid),
               !.templates = Del(st.templates, ntid)]

set_current_notetype_id(st, ntid) == [st EXCEPT !.current = ntid]

set_schema_modified(st) == [st EXCEPT !.schema_modified = TRUE]

(* col.usn(): the collection is not syncing. *)
ColUsn == 0 - 1

(* all_stock_notetypes(&col.tr).remove(0): the Basic notetype. *)
StockNotetype ==
    [DefaultNotetype EXCEPT
        !.name = <<"S">>,
        !.fields = <<NewNoteField(<<"F">>), NewNoteField(<<"B">>)>>,
        !.templates = <<CardTemplate(<<"c">>, <<RefTok(<<"F">>)>>,
                                     <<RefTok(<<"F">>), RefTok(<<"B">>)>>)>>]

----------------------------------------------------------------------------
(* The Collection methods. A method returns the Result (err, info), the     *)
(* caller's notetype as the method leaves it, and the storage and the       *)
(* cache after it. `fail` names the fallible storage or collaborator call   *)
(* that returns an error in this call ("none": they all succeed).           *)

Ret(err, info, n, st, c) ==
    [err |-> err, info |-> info, nt |-> n, storage |-> st, cache |-> c]

(* Collection::transact_no_undo: commit when the closure returned Ok and    *)
(* the commit succeeds, otherwise roll the storage back. What the closure   *)
(* did to memory (the cache, the caller's notetype) stays.                  *)
transact_no_undo(st, r, fail) ==
    IF r.err = "Ok" /\ fail # "commit" THEN r
    ELSE [r EXCEPT !.err = IF r.err = "Ok" THEN "DbError" ELSE r.err,
                   !.storage = st]

(* Notetype::set_modified *)
set_modified(n, usn, now) == [n EXCEPT !.mtime_secs = now, !.usn = usn]

(* Collection::get_notetype: the cached Arc, or the stored notetype, which  *)
(* is then cached.                                                          *)
get_notetype(st, c, ntid) ==
    IF ntid \in DOMAIN c THEN [value |-> Some(c[ntid]), cache |-> c]
    ELSE LET loaded == storage_get_notetype(st, ntid)
         IN  IF loaded.some
             THEN [value |-> loaded, cache |-> Put(c, ntid, loaded.v)]
             ELSE [value |-> None, cache |-> c]

(* Collection::get_notetype_by_name *)
get_notetype_by_name(st, c, name) ==
    LET found == storage_get_notetype_id(st, name)
    IN  IF found.some THEN get_notetype(st, c, found.v)
        ELSE [value |-> None, cache |-> c]

(* Collection::ensure_notetype_name_unique *)
RECURSIVE ensure_notetype_name_unique(_, _, _, _)
ensure_notetype_name_unique(st, n, usn, now) ==
    LET found == storage_get_notetype_id(st, n.name)
    IN  IF ~found.some \/ found.v = n.id THEN n
        ELSE ensure_notetype_name_unique(
                 st, set_modified([n EXCEPT !.name = Append(n.name, "+")], usn, now),
                 usn, now)

(* Collection::add_notetype_inner *)
(* The method, were it to drop the ? of line 397. *)
add_notetype_innerUnchecked(st, c, n, usn, fail, now) ==
    The({IF fail = "add_new_notetype" THEN Ret("DbError", <<>>, named, st, c)
         ELSE LET added == storage_add_new_notetype(st, named)
              IN  Ret("Ok", <<>>, added.nt, added.storage, c) :
         named \in {ensure_notetype_name_unique(st, prepare_for_adding(n).nt, usn, now)}})

add_notetype_inner(st, c, n, usn, fail, now) ==
    The({IF prep.err # "Ok" THEN Ret(prep.err, prep.info, prep.nt, st, c)
         ELSE The({IF fail = "add_new_notetype"
                   THEN Ret("DbError", <<>>, named, st, c)
                   ELSE LET added == storage_add_new_notetype(st, named)
                        IN  Ret("Ok", <<>>, added.nt, added.storage, c) :
                   named \in {ensure_notetype_name_unique(st, prep.nt, usn, now)}}) :
         prep \in {prepare_for_adding(n)}})

(* Collection::add_notetype *)
add_notetype(st, c, n, fail, now) ==
    The({transact_no_undo(st, r, fail) :
         r \in {add_notetype_inner(st, c, set_modified(n, ColUsn, now), ColUsn,
                                   fail, now)}})

(* Line 430: the optimistic check of update_notetype. *)
(* The closure without the check. *)
IsStaleNever(existing, n) == FALSE

IsStale(existing, n) == existing.some /\ existing.v.mtime_secs > n.mtime_secs

(* Line 454: col.state.notetype_cache.remove(&nt.id) *)
(* The closure without the removal. *)
EvictNothing(c, ntid) == c

Evict(c, ntid) == Del(c, ntid)

(* Lines 443-445: if !preserve_usn { nt.set_modified(usn) } *)
StampAlways(n, preserve_usn, now) == set_modified(n, ColUsn, now)

Stamp(n, preserve_usn, now) ==
    IF preserve_usn THEN n ELSE set_modified(n, ColUsn, now)

(* The closure of update_notetype, lines 429-456. *)
UpdateClosure(st, c, n, existing, preserve_usn, fail, now) ==
    IF IsStale(existing, n)
    THEN Ret("InvalidInput", "attempt to save stale notetype", n, st, c)
    ELSE IF existing.some /\ fail \in {"update_notes_for_changed_fields",
                                      "update_cards_for_changed_templates"}
         THEN Ret("DbError", <<>>, n, st, c)
    ELSE The({LET st1 == storage_update_notetype_config(st, named)
                  st2 == storage_update_notetype_fields(st1, named.id, named.fields)
                  st3 == storage_update_notetype_templates(st2, named.id,
                                                           named.templates)
              IN  IF fail = "update_notetype_config"
                  THEN Ret("DbError", <<>>, named, st, c)
                  ELSE IF fail = "update_notetype_fields"
                       THEN Ret("DbError", <<>>, named, st1, c)
                  ELSE IF fail = "update_notetype_templates"
                       THEN Ret("DbError", <<>>, named, st2, c)
                  ELSE Ret("Ok", <<>>, named, st3, Evict(c, named.id)) :
              named \in {ensure_notetype_name_unique(
                             st,
                             Stamp(n, preserve_usn, now),
                             ColUsn, now)}})

(* Collection::update_notetype *)
(* The method, were its closure to run outside transact_no_undo. *)
update_notetypeNoTransaction(st, c, n, preserve_usn, fail, now) ==
    LET existing == get_notetype(st, c, n.id)
    IN  The({IF prep.err # "Ok"
             THEN Ret(prep.err, prep.info, prep.nt, st, existing.cache)
             ELSE UpdateClosure(st, existing.cache, prep.nt, existing.value,
                                preserve_usn, fail, now) :
             prep \in {prepare_for_update(n, existing.value)}})

update_notetype(st, c, n, preserve_usn, fail, now) ==
    LET existing == get_notetype(st, c, n.id)
    IN  The({IF prep.err # "Ok"
             THEN Ret(prep.err, prep.info, prep.nt, st, existing.cache)
             ELSE The({transact_no_undo(st, r, fail) :
                       r \in {UpdateClosure(st, existing.cache, prep.nt,
                                            existing.value, preserve_usn, fail,
                                            now)}}) :
             prep \in {prepare_for_update(n, existing.value)}})

(* Lines 502-509 of remove_notetype: the notetype is gone from st. *)
(* The same without lines 503-508. *)
ReplaceRemovedKeepCurrent(st, c, fail, now) == Ret("Ok", <<>>, StockNotetype, st, c)

ReplaceRemoved(st, c, fail, now) ==
    LET all == storage_get_all_notetype_names(st)
    IN  IF all = <<>>
        THEN The({IF added.err # "Ok" THEN added
                  ELSE IF fail = "set_current_notetype_id"
                       THEN [added EXCEPT !.err = "DbError"]
                  ELSE [added EXCEPT
                           !.storage = set_current_notetype_id(added.storage,
                                                               added.nt.id)] :
                  added \in {add_notetype_inner(st, c, StockNotetype, ColUsn, fail,
                                                now)}})
        ELSE IF fail = "set_current_notetype_id"
             THEN Ret("DbError", <<>>, StockNotetype, st, c)
        ELSE Ret("Ok", <<>>, StockNotetype, set_current_notetype_id(st, all[1].id), c)

(* The closure of remove_notetype, lines 498-509. *)
(* The closure without line 499. *)
RemoveClosureKeepCache(st, c, ntid, fail, now) ==
    LET st1 == set_schema_modified(st)
        st2 == storage_remove_notetype(st1, ntid)
    IN  IF fail = "set_schema_modified" THEN Ret("DbError", <<>>, StockNotetype, st, c)
        ELSE IF fail = "clear_aux_config_for_notetype"
             THEN Ret("DbError", <<>>, StockNotetype, st1, c)
        ELSE IF fail = "remove_notetype" THEN Ret("DbError", <<>>, StockNotetype, st1, c)
        ELSE ReplaceRemoved(st2, c, fail, now)

RemoveClosure(st, c, ntid, fail, now) ==
    LET st1 == set_schema_modified(st)
        c1 == Del(c, ntid)
        st2 == storage_remove_notetype(st1, ntid)
    IN  IF fail = "set_schema_modified" THEN Ret("DbError", <<>>, StockNotetype, st, c)
        ELSE IF fail = "clear_aux_config_for_notetype"
             THEN Ret("DbError", <<>>, StockNotetype, st1, c1)
        ELSE IF fail = "remove_notetype" THEN Ret("DbError", <<>>, StockNotetype, st1, c1)
        ELSE ReplaceRemoved(st2, c1, fail, now)

(* Collection::remove_notetype *)
remove_notetype(st, c, ntid, fail, now) ==
    The({transact_no_undo(st, r, fail) : r \in {RemoveClosure(st, c, ntid, fail, now)}})

----------------------------------------------------------------------------
(* The values the variables of the collection hold while a specification    *)
(* of a pure function runs, and the other way round.                        *)

NoRes == [op |-> "none"]

----------------------------------------------------------------------------
(* SpecNames: ensure_names_unique applied, then applied again, to every     *)
(* notetype whose field and template names are drawn from NameVals.         *)

NameVals == {<<"a">>, <<"A">>, <<"a", "+">>, <<"b">>}

NamedNotetype(fnames, tnames) ==
    [DefaultNotetype EXCEPT
        !.fields = [i \in 1..Len(fnames) |-> NewNoteField(fnames[i])],
        !.templates = [i \in 1..Len(tnames) |-> CardTemplate(tnames[i], <<>>, <<>>)]]

InitNames ==
    /\ nt \in {NamedNotetype(f, t) : f \in SeqsUpTo(NameVals, MaxFields),
                                     t \in SeqsUpTo(NameVals, MaxTemplates)}
    /\ nt0 = nt
    /\ pc = "input"
    /\ res = NoRes
    /\ storage = NoRes
    /\ cache = NoRes
    /\ held = None
    /\ clock = 0
    /\ before = NoRes

EnsureNamesUnique ==
    /\ pc = "input"
    /\ nt' = ensure_names_unique(nt)
    /\ pc' = "unique"
    /\ UNCHANGED <<nt0, res, storage, cache, held, clock, before>>

EnsureNamesUniqueAgain ==
    /\ pc = "unique"
    /\ nt' = ensure_names_unique(nt)
    /\ res' = [op |-> "ensure_names_unique", first |-> nt]
    /\ pc' = "again"
    /\ UNCHANGED <<nt0, storage, cache, held, clock, before>>

NextNames == EnsureNamesUnique \/ EnsureNamesUniqueAgain

SpecNames == InitNames /\ [][NextNames]_vars

(* C1: after ensure_names_unique the field names are pairwise distinct      *)
(* under case-insensitive comparison, and so are the template names; the    *)
(* two namespaces are independent (names that were already distinct in      *)
(* their own namespace are kept, whatever the other namespace holds); and   *)
(* a second application changes no name.                                    *)
C1_NamesUniqueIdempotent ==
    /\ pc \in {"unique", "again"} =>
          /\ DistinctFolded(FieldNames(nt))
          /\ DistinctFolded(TemplateNames(nt))
          /\ DistinctFolded(FieldNames(nt0)) => FieldNames(nt) = FieldNames(nt0)
          /\ DistinctFolded(TemplateNames(nt0)) =>
                 TemplateNames(nt) = TemplateNames(nt0)
    /\ pc = "again" => nt = res.first

(* A field was renamed twice over ("a+" collided with the repaired "A+"),   *)
(* a field and a template share a name, and the second pass has run.        *)
C1_Witness ==
    /\ pc = "again"
    /\ FieldNames(nt0) = <<<<"a">>, <<"A">>, <<"a", "+">>>>
    /\ FieldNames(nt) = <<<<"a">>, <<"A", "+">>, <<"a", "+", "+">>>>
    /\ TemplateNames(nt) = <<<<"a">>, <<"A", "+">>>>

----------------------------------------------------------------------------
(* SpecSort: reposition_sort_idx applied to every non-empty field list      *)
(* whose fields carry a prior ordinal or none, under every sort index.      *)

FieldLetters == <<"a", "b", "c", "d">>

OrdVals == {NoOrd} \cup 0..MaxOrd

FieldsWithOrds(ords) ==
    [i \in 1..Len(ords) |->
        NoteField(<<FieldLetters[IF ords[i] = NoOrd THEN 4 ELSE (ords[i] % 3) + 1]>>,
                  ords[i])]

InitSort ==
    /\ \E ords \in SeqsUpTo(OrdVals, MaxFields) \ {<<>>}, idx \in 0..MaxOrd :
          nt = [DefaultNotetype EXCEPT !.fields = FieldsWithOrds(ords),
                                       !.config.sort_field_idx = idx]
    /\ nt0 = nt
    /\ pc = "input"
    /\ res = NoRes
    /\ storage = NoRes
    /\ cache = NoRes
    /\ held = None
    /\ clock = 0
    /\ before = NoRes

RepositionSortIdx ==
    /\ pc = "input"
    /\ nt' = reposition_sort_idx(nt)
    /\ pc' = "sorted"
    /\ UNCHANGED <<nt0, res, storage, cache, held, clock, before>>

NextSort == RepositionSortIdx

SpecSort == InitSort /\ [][NextSort]_vars

(* C2: reposition_sort_idx on a non-empty field list. If some field's prior *)
(* ordinal equals the configured sort_field_idx, the new sort_field_idx is  *)
(* the position of such a field; if none does, it is the old value clamped  *)
(* into [0, fields.len - 1]. Either way it is a valid index into fields,    *)
(* and nothing else of the notetype changes.                                *)
C2_SortIdxRepositioned ==
    pc = "sorted" =>
        LET old == nt0.config.sort_field_idx
            new == nt.config.sort_field_idx
            n == Len(nt0.fields)
        IN  /\ new \in 0..(n - 1)
            /\ (\E i \in 1..n : nt0.fields[i].ord = old) =>
                   nt.fields[new + 1].ord = old
            /\ (\A i \in 1..n : nt0.fields[i].ord # old) =>
                   new = (IF old > n - 1 THEN n - 1 ELSE old)
            /\ nt = [nt0 EXCEPT !.config.sort_field_idx = new]

(* [A,B,C] with sort index 1 (B) reordered to [C,A,B]: the sort index is 2. *)
C2_Witness ==
    /\ pc = "sorted"
    /\ nt0.config.sort_field_idx = 1
    /\ [i \in 1..Len(nt0.fields) |-> nt0.fields[i].ord] = <<2, 0, 1>>
    /\ nt.config.sort_field_idx = 2

----------------------------------------------------------------------------
(* SpecPrepare: prepare_for_update(nt, held), held being a notetype   *)
(* as get_notetype returns it (validated when it was saved, every field     *)
(* carrying its position as ord) and nt a copy of it whose field list the   *)
(* caller has edited: fields renamed, removed, reordered, added.            *)

F == <<"F">>
B == <<"B">>
Q == <<"Q">>
X == <<"x">>

(* Question/answer formats: {{F}} / {{F}}{{B}};                             *)
(* {{#B}}{{ F }}{{/B}} / {{F}}{{B}}; x{{^F}}{{B}}{{/F}} / x;                *)
(* {{B}}{{Q}} / {{F}}{{B}}; {{#F}}{{#B}}{{F}}{{/B}}{{/F}} / {{ F }}.        *)
TemplateVals ==
    {CardTemplate(<<"c">>, <<RefTok(F)>>, <<RefTok(F), RefTok(B)>>),
     CardTemplate(<<"c">>, <<OpenTok(B), SpacedRefTok(F), CloseTok(B)>>,
                  <<RefTok(F), RefTok(B)>>),
     CardTemplate(<<"c">>, <<TextTok(X), NegOpenTok(F), RefTok(B), CloseTok(F)>>,
                  <<TextTok(X)>>),
     CardTemplate(<<"c">>, <<RefTok(B), RefTok(Q)>>, <<RefTok(F), RefTok(B)>>),
     CardTemplate(<<"c">>,
                  <<OpenTok(F), OpenTok(B), RefTok(F), CloseTok(B), CloseTok(F)>>,
                  <<SpacedRefTok(F)>>)}

(* The caller's field list is drawn from these: F and B as loaded, F        *)
(* renamed to Q, B renamed to b, and a newly added field named F.           *)
FieldVals ==
    {NoteField(F, 0), NoteField(Q, 0), NoteField(B, 1), NoteField(<<"b">>, 1),
     NewNoteField(F)}

(* The notetypes with fields F, B that were saved and loaded again. *)
PriorNotetypes ==
    {[r.nt EXCEPT !.id = 1, !.fields = WithOrds(r.nt.fields)] :
        r \in {p \in {prepare_for_adding(
                        [DefaultNotetype EXCEPT
                            !.name = <<"N">>,
                            !.fields = <<NewNoteField(F), NewNoteField(B)>>,
                            !.templates = ts]) :
                      ts \in SeqsUpTo(TemplateVals, MaxTemplates)} :
               p.err = "Ok"}}

InitPrepare ==
    /\ held \in {Some(p) : p \in PriorNotetypes}
    /\ \E fs \in SeqsUpTo(FieldVals, MaxFields) : nt = [held.v EXCEPT !.fields = fs]
    /\ nt0 = nt
    /\ pc = "input"
    /\ res = NoRes
    /\ storage = NoRes
    /\ cache = NoRes
    /\ clock = 0
    /\ before = NoRes

PrepareForUpdate ==
    /\ pc = "input"
    /\ res' = prepare_for_update(nt, held)
    /\ nt' = res'.nt
    /\ pc' = "prepared"
    /\ UNCHANGED <<nt0, storage, cache, held, clock, before>>

NextPrepare == PrepareForUpdate

SpecPrepare == InitPrepare /\ [][NextPrepare]_vars

(* The field names a format string refers to. *)
Refs(fmt) == {fmt[i].f : i \in {j \in 1..Len(fmt) : fmt[j].t # "text"}}

(* The requirement analyzer run on a stored question format. *)
Analyse(n, i) ==
    LET p == ParseTemplate(n.templates[i].q_format)
        r == requirements(p.nodes, FieldMap(n))
    IN  IF p.ok THEN [kind |-> r.kind, field_ords |-> SortedSeq(r.ords)]
        ELSE [kind |-> "None", field_ords |-> <<>>]

(* The caller only renamed: every field kept its position and its prior     *)
(* ordinal, and some field changed name.                                    *)
OnlyRenamed ==
    /\ Len(nt0.fields) = Len(held.v.fields)
    /\ \A i \in 1..Len(nt0.fields) : nt0.fields[i].ord = i - 1
    /\ \E i \in 1..Len(nt0.fields) : nt0.fields[i].name # held.v.fields[i].name

(* The name a reference to `name` must carry after the rename. *)
NewNameOf(name) ==
    IF \E i \in 1..Len(held.v.fields) : held.v.fields[i].name = name
    THEN nt.fields[CHOOSE i \in 1..Len(held.v.fields) : held.v.fields[i].name = name].name
    ELSE name

RenamedEverywhere ==
    \A i \in 1..Len(nt.templates) :
        /\ Refs(nt.templates[i].q_format) =
               {NewNameOf(x) : x \in Refs(held.v.templates[i].q_format)}
        /\ Refs(nt.templates[i].a_format) =
               {NewNameOf(x) : x \in Refs(held.v.templates[i].a_format)}

SameRequirement(i) ==
    /\ Analyse(nt, i).kind = held.v.config.reqs[i].kind
    /\ Analyse(nt, i).field_ords = held.v.config.reqs[i].field_ords

(* The question of template i referred, before the rename, to a name that   *)
(* was no field then and is a field's name now.                             *)
ReferredToNewName(i) ==
    \E x \in Refs(held.v.templates[i].q_format) :
        /\ x \notin Range(FieldNames(held.v))
        /\ x \in Range(FieldNames(nt))

(* C8 as stated: after a successful prepare_for_update that only renamed    *)
(* fields, every template that referenced an old name references the new    *)
(* one instead, and the requirement analyzer on the rewritten templates     *)
(* against the new field list yields, for each template, the kind and the   *)
(* field ordinals of that template's requirement before the rename.         *)
C8_RenameRoundTripAll ==
    (pc = "prepared" /\ res.err = "Ok" /\ OnlyRenamed) =>
        /\ RenamedEverywhere
        /\ \A i \in 1..Len(nt.templates) : SameRequirement(i)

(* C8, amended: the same, the requirement being preserved for every         *)
(* template whose question did not already refer to the new name while no   *)
(* field was called that.                                                   *)
C8_RenameRoundTrip ==
    (pc = "prepared" /\ res.err = "Ok" /\ OnlyRenamed) =>
        /\ RenamedEverywhere
        /\ \A i \in 1..Len(nt.templates) :
               ~ReferredToNewName(i) => SameRequirement(i)

(* Front renamed to Question at ordinal 0: {{#B}}{{ F }}{{/B}} now reads    *)
(* {{#B}}{{Q}}{{/B}} and still requires all of fields 0 and 1.              *)
C8_Witness ==
    /\ pc = "prepared"
    /\ res.err = "Ok"
    /\ OnlyRenamed
    /\ FieldNames(held.v) = <<F, B>>
    /\ FieldNames(nt) = <<Q, B>>
    /\ held.v.templates[1].q_format = <<OpenTok(B), SpacedRefTok(F), CloseTok(B)>>
    /\ nt.templates[1].q_format = <<OpenTok(B), RefTok(Q), CloseTok(B)>>
    /\ nt.templates[1].a_format = <<RefTok(Q), RefTok(B)>>
    /\ Analyse(nt, 1) = [kind |-> "All", field_ords |-> <<0, 1>>]
    /\ held.v.config.reqs[1].kind = "All"

----------------------------------------------------------------------------
(* Spec: one collection and its callers. A caller passes add_notetype a     *)
(* notetype it has built, and update_notetype a notetype it has built or an *)
(* edited copy of the Arc it holds. The methods take &mut Collection, so    *)
(* calls do not overlap: a call is one step, which leaves its Result in     *)
(* res, the argument as passed in nt0 and as the call left it in nt; the    *)
(* caller then takes the result (Return) before the next call. Each        *)
(* fallible step of a call is made to fail in some call.                    *)

GoodTemplate == CardTemplate(<<"c">>, <<RefTok(F)>>, <<RefTok(F), RefTok(B)>>)

(* {{#F}} is never closed: neither side parses. {{/B}} closes nothing.      *)
BadTemplate == CardTemplate(<<"c">>, <<OpenTok(F)>>, <<OpenTok(F)>>)

BadAnswerTemplate == CardTemplate(<<"c">>, <<RefTok(F)>>, <<CloseTok(B)>>)

Draft(ntid, name, fields, templates) ==
    [DefaultNotetype EXCEPT !.id = ntid, !.name = name, !.fields = fields,
                            !.templates = templates]

TwoFields == <<NewNoteField(F), NewNoteField(B)>>

(* What callers build for add_notetype: a valid notetype, named like the    *)
(* stock notetype but for the case and with one name for its two templates, *)
(* and notetypes without fields, without templates, with a template that    *)
(* does not parse, with an empty name.                                      *)
Drafts ==
    {Draft(0, <<"s">>, TwoFields, <<GoodTemplate, GoodTemplate>>),
     Draft(0, <<"N">>, <<>>, <<GoodTemplate>>),
     Draft(0, <<"N">>, TwoFields, <<>>),
     Draft(0, <<"\"", "N">>, TwoFields,
           <<GoodTemplate, BadAnswerTemplate, BadTemplate>>),
     Draft(0, <<"N">>, <<>>, <<BadTemplate>>),
     Draft(0, <<"\"">>, TwoFields, <<BadTemplate>>)}

(* What callers build for update_notetype: the same, under the id of a      *)
(* stored notetype and with the modification time 0 of a new object.        *)
UpdateDrafts == {[d EXCEPT !.id = 1] : d \in Drafts}

(* What a caller does to its copy of the Arc it holds. *)
Edits == {"same", "rename", "break"}

Edit(n, e) ==
    CASE e = "rename" -> [n EXCEPT !.fields[1].name = Q]
      [] e = "break" -> [n EXCEPT !.templates[1].q_format = <<OpenTok(F)>>]
      [] OTHER -> n

CallerNotetypes ==
    UpdateDrafts \cup (IF held.some THEN {Edit(held.v, e) : e \in Edits} ELSE {})

AddFails == {"none", "add_new_notetype", "commit"}

UpdateFails ==
    {"none", "update_notes_for_changed_fields", "update_cards_for_changed_templates",
     "update_notetype_config", "update_notetype_fields", "update_notetype_templates",
     "commit"}

RemoveFails ==
    {"none", "set_schema_modified", "clear_aux_config_for_notetype", "remove_notetype",
     "add_new_notetype", "set_current_notetype_id", "commit"}

NotetypeIds == 1..MaxNotetypes

EmptyStorage ==
    [notetypes |-> <<>>, fields |-> <<>>, templates |-> <<>>, current |-> 0,
     schema_modified |-> FALSE]

(* A new collection holds the stock notetype, which is the current one. *)
InitStorage ==
    LET added == add_notetype_inner(EmptyStorage, <<>>, StockNotetype, ColUsn, "none", 0)
    IN  set_current_notetype_id(added.storage, added.nt.id)

(* What a call leaves in res: its Result, and the step that was made to     *)
(* fail in it.                                                              *)
Called(op, arg, r, fail) ==
    [op |-> op, arg |-> arg, err |-> r.err, info |-> r.info, value |-> None,
     fail |-> fail, preserve_usn |-> FALSE]

(* The collection as a call finds it. *)
Entered == [storage |-> storage, cache |-> cache]

Init ==
    /\ nt = DefaultNotetype
    /\ nt0 = DefaultNotetype
    /\ pc = "collection"
    /\ res = NoRes
    /\ storage = InitStorage
    /\ cache = <<>>
    /\ held = None
    /\ clock = 1
    /\ before = NoRes

AddNotetype ==
    /\ res = NoRes
    /\ Cardinality(DOMAIN storage.notetypes) < MaxNotetypes
    /\ \E d \in Drafts, fail \in AddFails :
          \E r \in {add_notetype(storage, cache, d, fail, clock)} :
              /\ nt0' = d
              /\ nt' = r.nt
              /\ storage' = r.storage
              /\ cache' = r.cache
              /\ res' = Called("add", d.id, r, fail)
              /\ before' = Entered
    /\ UNCHANGED <<pc, held, clock>>

UpdateNotetype ==
    /\ res = NoRes
    /\ \E n \in CallerNotetypes, preserve_usn \in BOOLEAN, fail \in UpdateFails :
          \E r \in {update_notetype(storage, cache, n, preserve_usn, fail, clock)} :
              /\ nt0' = n
              /\ nt' = r.nt
              /\ storage' = r.storage
              /\ cache' = r.cache
              /\ res' = [Called("update", n.id, r, fail) EXCEPT
                           !.preserve_usn = preserve_usn]
              /\ before' = Entered
    /\ UNCHANGED <<pc, held, clock>>

GetNotetype ==
    /\ res = NoRes
    /\ \E ntid \in NotetypeIds :
          \E g \in {get_notetype(storage, cache, ntid)} :
              /\ cache' = g.cache
              /\ res' = [op |-> "get", arg |-> ntid, err |-> "Ok", info |-> <<>>,
                         value |-> g.value, fail |-> "none",
                         preserve_usn |-> FALSE]
              /\ before' = Entered
    /\ UNCHANGED <<nt, nt0, pc, storage, held, clock>>

(* The names get_notetype_by_name is asked for. *)
LookupNames == {<<"s">>, <<"N">>}

GetNotetypeByName ==
    /\ res = NoRes
    /\ \E name \in LookupNames :
          \E g \in {get_notetype_by_name(storage, cache, name)} :
              /\ cache' = g.cache
              /\ res' = [op |-> "get_by_name", arg |-> name, err |-> "Ok",
                         info |-> <<>>, value |-> g.value, fail |-> "none",
                         preserve_usn |-> FALSE]
              /\ before' = Entered
    /\ UNCHANGED <<nt, nt0, pc, storage, held, clock>>

RemoveNotetype ==
    /\ res = NoRes
    /\ \E ntid \in NotetypeIds, fail \in RemoveFails :
          \E r \in {remove_notetype(storage, cache, ntid, fail, clock)} :
              /\ storage' = r.storage
              /\ cache' = r.cache
              /\ res' = Called("remove", ntid, r, fail)
              /\ before' = Entered
    /\ UNCHANGED <<nt, nt0, pc, held, clock>>

Return ==
    /\ res # NoRes
    /\ res' = NoRes
    /\ nt' = DefaultNotetype
    /\ nt0' = DefaultNotetype
    /\ before' = NoRes
    /\ UNCHANGED <<pc, storage, cache, held, clock>>

Tick ==
    /\ res = NoRes
    /\ clock < MaxClock
    /\ clock' = clock + 1
    /\ UNCHANGED <<nt, nt0, pc, res, storage, cache, held, before>>

Next ==
    \/ AddNotetype
    \/ UpdateNotetype
    \/ GetNotetype
    \/ GetNotetypeByName
    \/ RemoveNotetype
    \/ Return
    \/ Tick

Spec == Init /\ [][Next]_vars

----------------------------------------------------------------------------
(* SpecCache: one collection whose caller keeps the Arc a get_notetype      *)
(* returned while it goes on updating and getting the notetype.             *)

HoldNotetype ==
    /\ res # NoRes
    /\ res.op = "get"
    /\ res.value.some
    /\ held # res.value
    /\ held' = res.value
    /\ UNCHANGED <<nt, nt0, pc, res, storage, cache, clock, before>>

NextCache == HoldNotetype \/ UpdateNotetype \/ GetNotetype \/ Return \/ Tick

SpecCache == Init /\ [][NextCache]_vars

----------------------------------------------------------------------------
(* What the claims about the collection speak of. In a state a call has     *)
(* just produced, res is its Result, nt0 the notetype it was passed, nt the *)
(* notetype as it left it, before the collection as it found it.            *)

(* The persisted config, fields and templates of every notetype. *)
Tables(st) == [notetypes |-> st.notetypes, fields |-> st.fields,
               templates |-> st.templates]

Persisted(st, ntid) == storage_get_notetype(st, ntid)

(* The persisted notetype of the id of nt0 has a newer mtime_secs. *)
StaleCall ==
    /\ Persisted(before.storage, nt0.id).some
    /\ Persisted(before.storage, nt0.id).v.mtime_secs > nt0.mtime_secs

(* What prepare_for_update returns for the argument of the update call. *)
PreparedUpdate ==
    prepare_for_update(nt0, get_notetype(before.storage, before.cache, nt0.id).value)

(* What prepare_for_adding returns for the argument of the add call. *)
PreparedAdd == prepare_for_adding(set_modified(nt0, ColUsn, clock))

(* The templates of n that lack a parse on either side. *)
Unparsed(n) ==
    {i \in 1..Len(n.templates) :
        \/ ~ParseTemplate(n.templates[i].q_format).ok
        \/ ~ParseTemplate(n.templates[i].a_format).ok}

Unquoted(name) == StripChar(name, "\"")

----------------------------------------------------------------------------
(* C3 as stated: update_notetype with a notetype whose mtime_secs is older  *)
(* than that of the persisted notetype of the same id fails with            *)
(* InvalidInput, and the persisted config, fields and templates of every    *)
(* notetype are after the call what they were before it.                    *)
C3_StaleAlwaysInvalidInput ==
    (res.op = "update" /\ StaleCall) =>
        /\ res.err = "InvalidInput"
        /\ Tables(storage) = Tables(before.storage)

(* C3, amended: update_notetype with a stale notetype fails and leaves the  *)
(* persisted config, fields and templates of every notetype as they were;   *)
(* the error is InvalidInput (stale notetype) when the notetype passes      *)
(* prepare_for_update, and otherwise the error of prepare_for_update, which *)
(* runs before the check: TemplateSaveError for a template without a parse. *)
C3_StaleRejected ==
    (res.op = "update" /\ StaleCall) =>
        /\ res.err \in {"InvalidInput", "TemplateSaveError"}
        /\ Tables(storage) = Tables(before.storage)
        /\ PreparedUpdate.err = "Ok" =>
               /\ res.err = "InvalidInput"
               /\ res.info = "attempt to save stale notetype"
        /\ PreparedUpdate.err # "Ok" =>
               /\ res.err = PreparedUpdate.err
               /\ res.info = PreparedUpdate.info
        /\ res.err = "TemplateSaveError" => Unparsed(nt0) # {}

(* A valid notetype built with mtime_secs 0 is turned down once an earlier  *)
(* update has stamped the persisted notetype.                               *)
C3_Witness ==
    /\ res.op = "update"
    /\ StaleCall
    /\ Unparsed(nt0) = {}
    /\ res.err = "InvalidInput"
    /\ res.info = "attempt to save stale notetype"
    /\ nt0.mtime_secs = 0
    /\ Persisted(storage, nt0.id).v.mtime_secs = 1
    /\ storage = before.storage

----------------------------------------------------------------------------
(* C4: the cache holds nothing but what storage holds, whatever gets and    *)
(* updates came before: a successful update_notetype leaves no entry for    *)
(* its id, so that the next get_notetype loads the updated notetype; every  *)
(* get_notetype returns the persisted notetype, also while the caller       *)
(* holds the Arc of an earlier get, which the update does not touch.        *)
C4_CacheCoherent ==
    /\ \A ntid \in DOMAIN cache : Some(cache[ntid]) = Persisted(storage, ntid)
    /\ (res.op = "update" /\ res.err = "Ok") =>
           /\ res.arg \notin DOMAIN cache
           /\ get_notetype(storage, cache, res.arg).value =
                  Some([nt EXCEPT !.fields = WithOrds(nt.fields)])
    /\ res.op = "get" => res.value = Persisted(storage, res.arg)

(* The caller holds the notetype as it was before an update renamed its     *)
(* first field, and a get after the update returns the renamed one.         *)
C4_Witness ==
    /\ res.op = "get"
    /\ res.value.some
    /\ held.some
    /\ held.v.id = res.arg
    /\ FieldNames(held.v) = <<F, B>>
    /\ FieldNames(res.value.v) = <<Q, B>>
    /\ res.value.v.mtime_secs > held.v.mtime_secs
    /\ res.arg \in DOMAIN before.cache

----------------------------------------------------------------------------
----------------------------------------------------------------------------
(* C6: add_notetype and update_notetype, and so the prepare_for_update they *)
(* call, fail with InvalidInput on a notetype with no fields or no          *)
(* templates, and the failing call writes nothing to storage.               *)
C6_EmptyRejected ==
    (res.op \in {"add", "update"} /\ (nt0.fields = <<>> \/ nt0.templates = <<>>)) =>
        /\ res.err = "InvalidInput"
        /\ res.info = (IF nt0.fields = <<>> THEN "1 field required"
                       ELSE "1 template required")
        /\ storage = before.storage

(* A notetype with two fields and no template was passed to add_notetype. *)
C6_Witness ==
    /\ res.op = "add"
    /\ Len(nt0.fields) = 2
    /\ nt0.templates = <<>>
    /\ res.err = "InvalidInput"
    /\ storage = before.storage

----------------------------------------------------------------------------
(* The index of the first template of n that lacks a parse. *)
FirstUnparsed(n) == (CHOOSE i \in Unparsed(n) : \A j \in Unparsed(n) : i <= j) - 1

(* Lines 229-244 let n through: it has a field and a template, and neither  *)
(* its name nor the name of a field or template is empty once the           *)
(* disallowed character is removed.                                         *)
ReachesParsing(n) ==
    /\ n.fields # <<>>
    /\ n.templates # <<>>
    /\ Unquoted(n.name) # <<>>
    /\ \A i \in 1..Len(n.fields) : Unquoted(n.fields[i].name) # <<>>
    /\ \A i \in 1..Len(n.templates) : Unquoted(n.templates[i].name) # <<>>

(* C7 as stated: when a template's question or answer format does not      *)
(* parse, the add or update fails with TemplateSaveError carrying the       *)
(* notetype name and the ordinal of the first template without a parse,     *)
(* and nothing of the notetype is persisted.                                *)
C7_UnparsedAlwaysTemplateSaveError ==
    (res.op \in {"add", "update"} /\ Unparsed(nt0) # {}) =>
        /\ res.err = "TemplateSaveError"
        /\ res.info.ordinal = FirstUnparsed(nt0)
        /\ storage = before.storage

(* C7, amended: when a template's question or answer format does not parse, *)
(* the add or update fails and persists nothing; the error is               *)
(* TemplateSaveError, carrying the notetype name as the earlier steps left  *)
(* it and the ordinal of the first template without a parse on either side, *)
(* provided the notetype passes the checks that come before parsing (a      *)
(* field, a template, non-empty names); otherwise it is their InvalidInput. *)
C7_UnparsedRejected ==
    (res.op \in {"add", "update"} /\ Unparsed(nt0) # {}) =>
        /\ res.err \in {"TemplateSaveError", "InvalidInput"}
        /\ storage = before.storage
        /\ res.err = "TemplateSaveError" <=> ReachesParsing(nt0)
        /\ res.err = "TemplateSaveError" =>
               /\ res.info.notetype = Unquoted(nt0.name)
               /\ res.info.notetype = nt.name
               /\ res.info.ordinal = FirstUnparsed(nt0)

(* The first template parses, the second has no parse of its answer side,   *)
(* the third no parse at all: the error names the second.                   *)
C7_Witness ==
    /\ res.op = "add"
    /\ res.err = "TemplateSaveError"
    /\ Unparsed(nt0) = {2, 3}
    /\ ParseTemplate(nt0.templates[2].q_format).ok
    /\ nt0.name = <<"\"", "N">>
    /\ res.info = [notetype |-> <<"N">>, ordinal |-> 1]
    /\ storage = before.storage

----------------------------------------------------------------------------
(* What prepare_for_update establishes of a notetype it returns Ok for. *)
Validated(n) ==
    /\ n.fields # <<>>
    /\ n.templates # <<>>
    /\ n.name # <<>>
    /\ "\"" \notin Range(n.name)
    /\ DistinctFolded(FieldNames(n))
    /\ DistinctFolded(TemplateNames(n))
    /\ Unparsed(n) = {}
    /\ n.config.sort_field_idx \in 0..(Len(n.fields) - 1)
    /\ Len(n.config.reqs) = Len(n.templates)

(* The ids under which storage holds another notetype than the call found. *)
Written ==
    {ntid \in DOMAIN storage.notetypes \cup DOMAIN storage.fields
                 \cup DOMAIN storage.templates :
        \/ ntid \notin DOMAIN before.storage.notetypes
        \/ ntid \notin DOMAIN storage.notetypes
        \/ Persisted(storage, ntid) # Persisted(before.storage, ntid)}

(* The fields, templates and config of the persisted notetype v are those   *)
(* of the notetype p that the pipeline returned.                            *)
SameSchema(v, p) ==
    /\ FieldNames(v) = FieldNames(p)
    /\ v.templates = p.templates
    /\ v.config = p.config

(* C9: a notetype reaches storage only through a call in which              *)
(* prepare_for_adding or prepare_for_update returned Ok on that very        *)
(* object: what add_notetype, update_notetype and the stock replacement of  *)
(* remove_notetype write is the notetype the pipeline returned, and every   *)
(* persisted notetype has what the pipeline establishes.                    *)
C9_PersistedOnlyValidated ==
    /\ \A ntid \in DOMAIN storage.notetypes : Validated(Persisted(storage, ntid).v)
    /\ (res.op = "add" /\ Written # {}) =>
           /\ PreparedAdd.err = "Ok"
           /\ Written = {nt.id}
           /\ SameSchema(Persisted(storage, nt.id).v, PreparedAdd.nt)
    /\ (res.op = "update" /\ Written # {}) =>
           /\ PreparedUpdate.err = "Ok"
           /\ Written = {nt.id}
           /\ SameSchema(Persisted(storage, nt.id).v, PreparedUpdate.nt)
    /\ (res.op = "remove" /\ Written # {}) =>
           \A ntid \in Written \cap DOMAIN storage.notetypes :
               /\ prepare_for_adding(StockNotetype).err = "Ok"
               /\ SameSchema(Persisted(storage, ntid).v,
                             prepare_for_adding(StockNotetype).nt)

(* add_notetype persisted a notetype whose two templates had one name: the  *)
(* pipeline gave the second another, and the notetype a name none has.      *)
C9_Witness ==
    /\ res.op = "add"
    /\ res.err = "Ok"
    /\ nt0.name = <<"s">>
    /\ TemplateNames(nt0) = <<<<"c">>, <<"c">>>>
    /\ Written = {nt.id}
    /\ storage.notetypes[nt.id].name = <<"s", "+">>
    /\ TemplateNames(Persisted(storage, nt.id).v) = <<<<"c">>, <<"c", "+">>>>

----------------------------------------------------------------------------
(* C10: an add_notetype, update_notetype or remove_notetype call that fails *)
(* (validation, stale check, collaborator or storage error at any step, or  *)
(* the commit) leaves storage as it found it, and one that succeeds has     *)
(* made all its writes: the notetype is persisted whole (config, fields and *)
(* templates) as the call left it, or removed from the three tables.        *)
C10_AllOrNothing ==
    /\ (res.op \in {"add", "update", "remove"} /\ res.err # "Ok") =>
           storage = before.storage
    /\ (res.op \in {"add", "update"} /\ res.err = "Ok") =>
           /\ nt.id \in DOMAIN storage.fields \cap DOMAIN storage.templates
           /\ Persisted(storage, nt.id) = Some([nt EXCEPT !.fields = WithOrds(nt.fields)])
    /\ (res.op = "remove" /\ res.err = "Ok") =>
           /\ storage.schema_modified
           /\ DOMAIN storage.fields = DOMAIN storage.notetypes
           /\ DOMAIN storage.templates = DOMAIN storage.notetypes
           /\ res.arg \in DOMAIN storage.notetypes =>
                  DOMAIN before.storage.notetypes = {res.arg}

(* update_notetype had written the config and the fields when writing the   *)
(* templates failed: storage is what it was.                                *)
C10_Witness ==
    /\ res.op = "update"
    /\ res.err = "DbError"
    /\ res.fail = "update_notetype_templates"
    /\ Persisted(storage, nt0.id).some
    /\ PreparedUpdate.nt.name # Persisted(storage, nt0.id).v.name
    /\ storage = before.storage

----------------------------------------------------------------------------
(* SpecTemplate: prepare_for_adding on a Standard or Cloze notetype with up *)
(* to MaxTemplates templates, then get_template for a card ordinal.         *)

OtherTemplate == CardTemplate(<<"d">>, <<RefTok(B)>>, <<RefTok(F)>>)

NotetypeKinds == {"Standard", "Cloze"}

InitTemplate ==
    /\ \E kind \in NotetypeKinds,
          fs \in {TwoFields, <<NewNoteField(F)>>},
          ts \in SeqsUpTo({GoodTemplate, OtherTemplate, BadTemplate}, MaxTemplates) :
          nt = [Draft(0, <<"s">>, fs, ts) EXCEPT !.config.kind = kind]
    /\ nt0 = nt
    /\ pc = "input"
    /\ res = NoRes
    /\ storage = NoRes
    /\ cache = NoRes
    /\ held = None
    /\ clock = 0
    /\ before = NoRes

PrepareForAdding ==
    /\ pc = "input"
    /\ \E r \in {prepare_for_adding(nt)} :
          /\ res' = [op |-> "prepare_for_adding", err |-> r.err, info |-> r.info]
          /\ nt' = r.nt
    /\ pc' = "prepared"
    /\ UNCHANGED <<nt0, storage, cache, held, clock, before>>

GetTemplate ==
    /\ pc = "prepared"
    /\ res.err = "Ok"
    /\ \E card_ord \in 0..MaxTemplates :
          res' = [op |-> "get_template", arg |-> card_ord,
                  err |-> get_template(nt, card_ord).err,
                  value |-> get_template(nt, card_ord).value]
    /\ pc' = "got"
    /\ UNCHANGED <<nt, nt0, storage, cache, held, clock, before>>

NextTemplate == PrepareForAdding \/ GetTemplate

SpecTemplate == InitTemplate /\ [][NextTemplate]_vars

(* C11: after a successful prepare_for_adding a Cloze notetype has exactly  *)
(* one template and get_template returns it for every card ordinal; for a   *)
(* Standard notetype get_template(i) returns templates[i], and fails with   *)
(* NotFound when i is not the index of a template.                          *)
C11_ClozeOneTemplate ==
    /\ (pc = "prepared" /\ res.err = "Ok" /\ nt.config.kind = "Cloze") =>
           Len(nt.templates) = 1
    /\ (pc = "got" /\ nt.config.kind = "Cloze") =>
           /\ res.err = "Ok"
           /\ res.value = nt.templates[1]
    /\ (pc = "got" /\ nt.config.kind = "Standard") =>
           IF res.arg < Len(nt.templates)
           THEN res.err = "Ok" /\ res.value = nt.templates[res.arg + 1]
           ELSE res.err = "NotFound"

(* What holds of get_template whatever the number of templates. *)
C11_GetTemplateOnly ==
    /\ (pc = "got" /\ nt.config.kind = "Cloze") =>
           /\ res.err = "Ok"
           /\ res.value = nt.templates[1]
    /\ (pc = "got" /\ nt.config.kind = "Standard") =>
           IF res.arg < Len(nt.templates)
           THEN res.err = "Ok" /\ res.value = nt.templates[res.arg + 1]
           ELSE res.err = "NotFound"

----------------------------------------------------------------------------
(* C12: no two persisted notetypes with different ids have the same name as *)
(* storage.get_notetype_id compares names (without case), after any         *)
(* sequence of add_notetype and update_notetype calls, whatever the id of   *)
(* the notetype passed in.                                                  *)
C12_GlobalNamesUnique ==
    \A i, j \in DOMAIN storage.notetypes :
        i # j => UniCase(storage.notetypes[i].name) # UniCase(storage.notetypes[j].name)

----------------------------------------------------------------------------
(* SpecCallers: a collection that holds the stock notetype S and a second   *)
(* notetype s+. Callers copy the persisted version of one of them (held),   *)
(* one edits its copy and calls update_notetype, and then either another    *)
(* edits the same version and calls update_notetype, or the first calls     *)
(* update_notetype again with the object as the first call left it. Every   *)
(* call reads the clock, which has not gone back since the call before.     *)

CallerEdits ==
    {"same", "rename field", "remove field", "reorder fields", "take name", "free name"}

EditCopy(n, e) ==
    CASE e = "rename field" -> [n EXCEPT !.fields[1].name = Q]
      [] e = "remove field" -> [n EXCEPT !.fields = Tail(@)]
      [] e = "reorder fields" -> [n EXCEPT !.fields = <<@[2], @[1]>>]
      [] e = "take name" ->
             [n EXCEPT !.name = IF n.id = 1 THEN <<"s", "+">> ELSE <<"S">>]
      [] e = "free name" -> [n EXCEPT !.name = <<"N">>]
      [] OTHER -> n

InitCallers ==
    /\ nt = DefaultNotetype
    /\ nt0 = DefaultNotetype
    /\ pc = "collection"
    /\ res = NoRes
    /\ storage = add_notetype(InitStorage, <<>>,
                              Draft(0, <<"s">>, TwoFields, <<GoodTemplate, GoodTemplate>>),
                              "none", 0).storage
    /\ cache = <<>>
    /\ held = None
    /\ clock = 0
    /\ before = NoRes

CopyVersion ==
    /\ pc = "collection"
    /\ \E ntid \in DOMAIN storage.notetypes :
          \E g \in {get_notetype(storage, cache, ntid)} :
              /\ held' = g.value
              /\ cache' = g.cache
    /\ pc' = "copied"
    /\ UNCHANGED <<nt, nt0, res, storage, clock, before>>

FirstWriter ==
    /\ pc = "copied"
    /\ \E e \in CallerEdits, preserve_usn \in BOOLEAN, now \in clock..MaxClock :
          \E r \in {update_notetype(storage, cache, EditCopy(held.v, e), preserve_usn,
                                    "none", now)} :
              /\ nt0' = EditCopy(held.v, e)
              /\ nt' = r.nt
              /\ storage' = r.storage
              /\ cache' = r.cache
              /\ res' = [Called("update", held.v.id, r, "none") EXCEPT
                           !.preserve_usn = preserve_usn]
              /\ clock' = now
    /\ before' = Entered
    /\ pc' = "first written"
    /\ UNCHANGED held

(* The other caller's update_notetype, without preserve_usn. res.first is   *)
(* what the first caller's call returned.                                   *)
SecondWriter ==
    /\ pc = "first written"
    /\ \E e \in CallerEdits, now \in clock..MaxClock :
          \E r \in {update_notetype(storage, cache, EditCopy(held.v, e), FALSE,
                                    "none", now)} :
              /\ nt0' = EditCopy(held.v, e)
              /\ nt' = r.nt
              /\ storage' = r.storage
              /\ cache' = r.cache
              /\ res' = [op |-> "update", arg |-> held.v.id, err |-> r.err,
                         info |-> r.info, value |-> None, fail |-> "none",
                         preserve_usn |-> FALSE, first |-> res]
              /\ clock' = now
    /\ before' = Entered
    /\ pc' = "second written"
    /\ UNCHANGED held

(* The first caller's second update_notetype with the same object. *)
UpdateAgain ==
    /\ pc = "first written"
    /\ res.err = "Ok"
    /\ \E now \in clock..MaxClock :
          \E r \in {update_notetype(storage, cache, nt, res.preserve_usn, "none", now)} :
              /\ nt' = r.nt
              /\ storage' = r.storage
              /\ cache' = r.cache
              /\ res' = [Called("update", nt.id, r, "none") EXCEPT
                           !.preserve_usn = res.preserve_usn]
              /\ clock' = now
    /\ nt0' = nt
    /\ before' = Entered
    /\ pc' = "updated again"
    /\ UNCHANGED held

NextCallers == CopyVersion \/ FirstWriter \/ SecondWriter \/ UpdateAgain

SpecCallers == InitCallers /\ [][NextCallers]_vars

----------------------------------------------------------------------------
(* The persisted row of the notetype the update wrote. *)
Row == storage.notetypes[nt.id]

(* ensure_notetype_name_unique found the name taken and changed it. *)
NameRepaired == Row.name # PreparedUpdate.nt.name

(* C13 as stated: after a successful update_notetype with preserve_usn the  *)
(* persisted mtime_secs and usn are those the caller's notetype carried on  *)
(* entry; without preserve_usn they are the current time and the            *)
(* collection's usn.                                                        *)
C13_PreserveNeverRestamps ==
    (res.op = "update" /\ res.err = "Ok") =>
        IF res.preserve_usn
        THEN Row.mtime_secs = nt0.mtime_secs /\ Row.usn = nt0.usn
        ELSE Row.mtime_secs = clock /\ Row.usn = ColUsn

(* C13, amended: after a successful update_notetype with preserve_usn the   *)
(* persisted mtime_secs and usn are those the caller's notetype carried on  *)
(* entry, unless its name was taken by another notetype: the repair of the  *)
(* name re-stamps it. Re-stamped, with or without preserve_usn, they are    *)
(* the current time and the collection's usn.                               *)
C13_PreserveUnlessRepaired ==
    (res.op = "update" /\ res.err = "Ok") =>
        IF res.preserve_usn /\ ~NameRepaired
        THEN Row.mtime_secs = nt0.mtime_secs /\ Row.usn = nt0.usn
        ELSE Row.mtime_secs = clock /\ Row.usn = ColUsn

(* An update with preserve_usn whose name was free kept the caller's        *)
(* mtime_secs 0 and usn 0 at time 2.                                        *)
C13_Witness ==
    /\ res.op = "update"
    /\ res.err = "Ok"
    /\ res.preserve_usn
    /\ ~NameRepaired
    /\ clock = 2
    /\ Row.mtime_secs = 0
    /\ Row.usn = 0
    /\ before.storage.notetypes[nt.id].name # Row.name

----------------------------------------------------------------------------
(* SpecRenamed: renamed_and_removed_fields(nt, held), held being a          *)
(* persisted notetype with one or two fields and nt a notetype whose fields *)
(* carry any prior ordinal, also one past the prior fields, or none.        *)

RenamedNames == {F, B, Q}

PriorFieldLists == {<<NoteField(F, 0)>>, <<NoteField(F, 0), NoteField(B, 1)>>}

InitRenamed ==
    /\ \E prior \in PriorFieldLists,
          fs \in SeqsUpTo({NoteField(name, ord) : name \in RenamedNames,
                                                  ord \in {NoOrd} \cup 0..(MaxOrd - 1)},
                          MaxFields) :
          /\ held = Some([StockNotetype EXCEPT !.id = 1, !.fields = prior])
          /\ nt = [StockNotetype EXCEPT !.id = 1, !.fields = fs]
    /\ nt0 = nt
    /\ pc = "input"
    /\ res = NoRes
    /\ storage = NoRes
    /\ cache = NoRes
    /\ clock = 0
    /\ before = NoRes

RenamedAndRemovedFields ==
    /\ pc = "input"
    /\ res' = [op |-> "renamed_and_removed_fields",
               map |-> renamed_and_removed_fields(nt, held.v)]
    /\ pc' = "mapped"
    /\ UNCHANGED <<nt, nt0, storage, cache, held, clock, before>>

NextRenamed == RenamedAndRemovedFields

SpecRenamed == InitRenamed /\ [][NextRenamed]_vars

(* The current fields that carry the ordinal of the prior field i. *)
Carriers(i) == {j \in 1..Len(nt.fields) : nt.fields[j].ord = i - 1}

(* Those of them that have another name than the prior field. *)
Renaming(i) == {j \in Carriers(i) : nt.fields[j].name # held.v.fields[i].name}

PriorIdx == 1..Len(held.v.fields)

(* (a) and (b) of C14: the keys are the prior names of the prior fields     *)
(* whose ordinal a current field carries under another name, mapped to the  *)
(* name of such a field, and of those whose ordinal no current field        *)
(* carries, mapped to None.                                                 *)
KeysAsClaimed ==
    /\ DOMAIN res.map =
           {held.v.fields[i].name : i \in {k \in PriorIdx : Renaming(k) # {}}}
               \cup {held.v.fields[i].name : i \in {k \in PriorIdx : Carriers(k) = {}}}
    /\ \A i \in PriorIdx :
           /\ Renaming(i) # {} =>
                  res.map[held.v.fields[i].name] \in
                      {nt.fields[j].name : j \in Renaming(i)}
           /\ Carriers(i) = {} => res.map[held.v.fields[i].name] = Removed

(* Fields without a prior ordinal contribute and cause no entry: the map is *)
(* that of the notetype without them.                                       *)
NewFieldsIgnored ==
    /\ \A j \in 1..Len(nt.fields) :
           nt.fields[j].ord = NoOrd =>
               \A i \in PriorIdx : j \notin Carriers(i)
    /\ res.map = renamed_and_removed_fields(
                     [nt EXCEPT !.fields = SelectSeq(nt.fields, LAMBDA f : f.ord # NoOrd)],
                     held.v)

(* C14 as stated: (a), (b), fields without a prior ordinal are ignored, and *)
(* a prior field whose ordinal is retained under the same name has no       *)
(* entry.                                                                   *)
C14_MapAsStated ==
    pc = "mapped" =>
        /\ KeysAsClaimed
        /\ NewFieldsIgnored
        /\ \A i \in PriorIdx :
               (Carriers(i) \ Renaming(i)) # {} =>
                   held.v.fields[i].name \notin DOMAIN res.map

(* C14, amended: (a), the entry being the name of the last current field    *)
(* that carries the ordinal under another name; (b); fields without a       *)
(* prior ordinal are ignored; and a prior field has no entry when its       *)
(* ordinal is retained and every current field carrying it has its name.    *)
C14_RenamedAndRemoved ==
    pc = "mapped" =>
        /\ KeysAsClaimed
        /\ NewFieldsIgnored
        /\ \A i \in PriorIdx :
               /\ Renaming(i) # {} =>
                      res.map[held.v.fields[i].name] =
                          nt.fields[CHOOSE j \in Renaming(i) :
                                        \A k \in Renaming(i) : k <= j].name
               /\ (Carriers(i) # {} /\ Renaming(i) = {}) =>
                      held.v.fields[i].name \notin DOMAIN res.map

(* Prior [F, B]; current [Q carrying 0, a new F, B carrying 2]: F was       *)
(* renamed to Q, B was removed, and the new fields count for nothing.       *)
C14_Witness ==
    /\ pc = "mapped"
    /\ FieldNames(held.v) = <<F, B>>
    /\ nt.fields = <<NoteField(Q, 0), NoteField(F, NoOrd), NoteField(B, 2)>>
    /\ res.map = [key \in {F, B} |-> IF key = F THEN Q ELSE Removed]

----------------------------------------------------------------------------
(* SpecRemoval: prepare_for_update(nt, held) and prepare_for_update(nt,     *)
(* None), held being a saved notetype with the fields F, B and nt a copy    *)
(* whose fields the caller removed, renamed (also to the name of a removed  *)
(* field) or added, and one of whose answer formats may have been made      *)
(* unparsable.                                                              *)

(* {{#B}}{{ F }}{{/B}} / {{F}}{{B}} and x{{^F}}{{B}}{{/F}} / {{Q}}{{ B }}. *)
RemovalTemplates ==
    {CardTemplate(<<"c">>, <<OpenTok(B), SpacedRefTok(F), CloseTok(B)>>,
                  <<RefTok(F), RefTok(B)>>),
     CardTemplate(<<"c">>, <<TextTok(X), NegOpenTok(F), RefTok(B), CloseTok(F)>>,
                  <<RefTok(Q), SpacedRefTok(B)>>)}

RemovalFieldVals == FieldVals \cup {NoteField(F, 1)}

RemovalPriors ==
    {[r.nt EXCEPT !.id = 1, !.fields = WithOrds(r.nt.fields)] :
        r \in {p \in {prepare_for_adding(
                        [DefaultNotetype EXCEPT
                            !.name = <<"N">>,
                            !.fields = <<NewNoteField(F), NewNoteField(B)>>,
                            !.templates = ts]) :
                      ts \in SeqsUpTo(RemovalTemplates, MaxTemplates)} :
               p.err = "Ok"}}

InitRemoval ==
    /\ held \in {Some(p) : p \in RemovalPriors}
    /\ \E fs \in SeqsUpTo(RemovalFieldVals, MaxFields), broken \in BOOLEAN :
          nt = [held.v EXCEPT
                   !.fields = fs,
                   !.templates[1].a_format = IF broken THEN <<CloseTok(B)>> ELSE @]
    /\ nt0 = nt
    /\ pc = "input"
    /\ res = NoRes
    /\ storage = NoRes
    /\ cache = NoRes
    /\ clock = 0
    /\ before = NoRes

PrepareWithoutPrior ==
    /\ pc = "input"
    /\ res' = prepare_for_update(nt, None)
    /\ nt' = res'.nt
    /\ pc' = "prepared without prior"
    /\ UNCHANGED <<nt0, storage, cache, held, clock, before>>

NextRemoval == PrepareForUpdate \/ PrepareWithoutPrior

SpecRemoval == InitRemoval /\ [][NextRemoval]_vars

(* The prior names of the prior fields whose ordinal no current field       *)
(* carries.                                                                 *)
RemovedNames == {held.v.fields[i].name : i \in {k \in PriorIdx : Carriers(k) = {}}}

(* The name a prior field goes by now: that of the last current field       *)
(* carrying its ordinal under another name, if there is one.                *)
CurrentName(name) ==
    LET is == {i \in PriorIdx : held.v.fields[i].name = name /\ Renaming(i) # {}}
    IN  IF is = {} THEN name
        ELSE nt.fields[CHOOSE j \in Renaming(CHOOSE i \in is : TRUE) :
                           \A k \in Renaming(CHOOSE i \in is : TRUE) : k <= j].name

MappingEmpty == \A i \in PriorIdx : Carriers(i) # {} /\ Renaming(i) = {}

(* A format without the tokens that refer to a removed field, every other   *)
(* reference in place, under the name its field goes by now and as          *)
(* template_to_string writes it.                                            *)
WithoutRemoved(fmt) ==
    LET kept == SelectSeq(fmt, LAMBDA tok : tok.t = "text" \/ tok.f \notin RemovedNames)
    IN  [k \in 1..Len(kept) |->
            IF kept[k].t = "text" THEN kept[k]
            ELSE [kept[k] EXCEPT !.f = CurrentName(@), !.sp = FALSE]]

AllRefs(n) ==
    UNION {Refs(n.templates[i].q_format) \cup Refs(n.templates[i].a_format) :
              i \in 1..Len(n.templates)}

SameFormats ==
    \A i \in 1..Len(nt0.templates) :
        /\ nt.templates[i].q_format = nt0.templates[i].q_format
        /\ nt.templates[i].a_format = nt0.templates[i].a_format

OthersPreserved ==
    \A i \in 1..Len(nt0.templates) :
        /\ nt.templates[i].q_format = WithoutRemoved(nt0.templates[i].q_format)
        /\ nt.templates[i].a_format = WithoutRemoved(nt0.templates[i].a_format)

UnparsedUntouched ==
    \A i \in 1..Len(nt0.templates) :
        /\ ~ParseTemplate(nt0.templates[i].q_format).ok =>
               nt.templates[i].q_format = nt0.templates[i].q_format
        /\ ~ParseTemplate(nt0.templates[i].a_format).ok =>
               nt.templates[i].a_format = nt0.templates[i].a_format

(* C15 as stated: after a successful prepare_for_update with a prior        *)
(* notetype no format refers to the old name of a removed field and the     *)
(* references to the other fields are preserved; a side that did not parse  *)
(* is not rewritten; with an empty mapping or without a prior notetype no   *)
(* format is modified.                                                      *)
C15_NoReferenceToRemoved ==
    /\ (pc = "prepared" /\ res.err = "Ok") =>
           /\ AllRefs(nt) \cap RemovedNames = {}
           /\ IF MappingEmpty THEN SameFormats ELSE OthersPreserved
    /\ pc = "prepared" => UnparsedUntouched
    /\ pc = "prepared without prior" => SameFormats

(* C15, amended: the same, a removed field's old name being referred to     *)
(* only where it is the name a renamed field goes by now.                   *)
C15_RemovalPropagated ==
    /\ (pc = "prepared" /\ res.err = "Ok") =>
           /\ (AllRefs(nt) \cap RemovedNames) \subseteq
                  {CurrentName(held.v.fields[i].name) :
                      i \in {k \in PriorIdx : Renaming(k) # {}}}
           /\ IF MappingEmpty THEN SameFormats ELSE OthersPreserved
    /\ pc = "prepared" => UnparsedUntouched
    /\ pc = "prepared without prior" => SameFormats

(* B was removed: {{#B}}{{ F }}{{/B}} / {{F}}{{B}} became {{F}} / {{F}}.    *)
C15_Witness ==
    /\ pc = "prepared"
    /\ res.err = "Ok"
    /\ RemovedNames = {B}
    /\ nt.fields = <<NoteField(F, 0)>>
    /\ nt0.templates[1].q_format = <<OpenTok(B), SpacedRefTok(F), CloseTok(B)>>
    /\ nt0.templates[1].a_format = <<RefTok(F), RefTok(B)>>
    /\ nt.templates[1].q_format = <<RefTok(F)>>
    /\ nt.templates[1].a_format = <<RefTok(F)>>

----------------------------------------------------------------------------
(* SpecRepair: the loops of ensure_names_unique and of                      *)
(* ensure_notetype_name_unique, one action per pass through a loop body,    *)
(* and the add_new_notetype that follows them in add_notetype_inner.        *)
(* res holds the locals of ensure_names_unique: the item the for loop is    *)
(* at and the HashSet names.                                                *)

(* t.name.push('+') and notetype.name += "+" *)
(* The loops, were they to leave the name as it is. *)
PushNothing(name) == name

Push(name) == Append(name, "+")

(* A store of k notetypes, with the ids 1..k and the names S, S+, S++, ... *)
StoreOf(k) ==
    [EmptyStorage EXCEPT
        !.notetypes =
            [i \in 1..k |->
                [name |-> <<"S">> \o [j \in 1..(i - 1) |-> "+"],
                 mtime_secs |-> 0, usn |-> 0, config |-> DefaultNotetype.config]]]

RepairNames == {<<"a">>, <<"A">>, <<"a", "+">>}

InitRepair ==
    /\ \E f \in SeqsUpTo(RepairNames, MaxFields),
          t \in SeqsUpTo(RepairNames \ {<<"a", "+">>}, MaxTemplates),
          ntid \in 0..MaxNotetypes :
          nt = [NamedNotetype(f, t) EXCEPT !.name = <<"s">>, !.id = ntid]
    /\ storage \in {StoreOf(k) : k \in 0..MaxNotetypes}
    /\ nt0 = nt
    /\ pc = "templates"
    /\ res = [op |-> "ensure_names_unique", idx |-> 1, names |-> {}, err |-> "Ok"]
    /\ cache = NoRes
    /\ held = None
    /\ clock = 1
    /\ before = NoRes

(* Line 92 is false: the name is taken, line 96 lengthens it. *)
TemplateNameTaken ==
    /\ pc = "templates"
    /\ res.idx <= Len(nt.templates)
    /\ UniCase(nt.templates[res.idx].name) \in res.names
    /\ nt' = [nt EXCEPT !.templates[res.idx].name = Push(@)]
    /\ UNCHANGED <<nt0, pc, res, storage, cache, held, clock, before>>

(* Lines 92-94: the name is free, it is inserted and the loop left. *)
TemplateNameFree ==
    /\ pc = "templates"
    /\ res.idx <= Len(nt.templates)
    /\ UniCase(nt.templates[res.idx].name) \notin res.names
    /\ res' = [res EXCEPT !.idx = @ + 1,
                          !.names = @ \cup {UniCase(nt.templates[res.idx].name)}]
    /\ UNCHANGED <<nt, nt0, pc, storage, cache, held, clock, before>>

(* Line 99: names.clear(), and on to the fields. *)
TemplatesDone ==
    /\ pc = "templates"
    /\ res.idx > Len(nt.templates)
    /\ res' = [res EXCEPT !.idx = 1, !.names = {}]
    /\ pc' = "fields"
    /\ UNCHANGED <<nt, nt0, storage, cache, held, clock, before>>

FieldNameTaken ==
    /\ pc = "fields"
    /\ res.idx <= Len(nt.fields)
    /\ UniCase(nt.fields[res.idx].name) \in res.names
    /\ nt' = [nt EXCEPT !.fields[res.idx].name = Push(@)]
    /\ UNCHANGED <<nt0, pc, res, storage, cache, held, clock, before>>

FieldNameFree ==
    /\ pc = "fields"
    /\ res.idx <= Len(nt.fields)
    /\ UniCase(nt.fields[res.idx].name) \notin res.names
    /\ res' = [res EXCEPT !.idx = @ + 1,
                          !.names = @ \cup {UniCase(nt.fields[res.idx].name)}]
    /\ UNCHANGED <<nt, nt0, pc, storage, cache, held, clock, before>>

(* ensure_names_unique returns; ensure_notetype_name_unique is entered. *)
FieldsDone ==
    /\ pc = "fields"
    /\ res.idx > Len(nt.fields)
    /\ res' = [op |-> "ensure_notetype_name_unique", err |-> "Ok"]
    /\ pc' = "notetype"
    /\ UNCHANGED <<nt, nt0, storage, cache, held, clock, before>>

(* Lines 413-416: another notetype has the name. *)
NotetypeNameTaken ==
    /\ pc = "notetype"
    /\ \E found \in {storage_get_notetype_id(storage, nt.name)} :
          /\ found.some
          /\ found.v # nt.id
    /\ nt' = set_modified([nt EXCEPT !.name = Push(@)], ColUsn, clock)
    /\ UNCHANGED <<nt0, pc, res, storage, cache, held, clock, before>>

(* Lines 409-412 and 419: no notetype, or this one, has the name. *)
NotetypeNameFree ==
    /\ pc = "notetype"
    /\ \E found \in {storage_get_notetype_id(storage, nt.name)} :
          \/ ~found.some
          \/ found.some /\ found.v = nt.id
    /\ pc' = "done"
    /\ UNCHANGED <<nt, nt0, res, storage, cache, held, clock, before>>

(* The ? of line 408: storage.get_notetype_id returned an error. *)
NotetypeNameLookupFails ==
    /\ pc = "notetype"
    /\ res' = [res EXCEPT !.err = "DbError"]
    /\ pc' = "done"
    /\ UNCHANGED <<nt, nt0, storage, cache, held, clock, before>>

(* Lines 398-399 of add_notetype_inner: the notetype, which has the field   *)
(* and the template prepare_for_adding asks for, is stored under a new id.  *)
AddNewNotetype ==
    /\ pc = "done"
    /\ res.err = "Ok"
    /\ nt.fields # <<>>
    /\ nt.templates # <<>>
    /\ \E added \in {storage_add_new_notetype(storage, nt)} :
          /\ nt' = added.nt
          /\ storage' = added.storage
    /\ pc' = "added"
    /\ UNCHANGED <<nt0, res, cache, held, clock, before>>

NextRepair ==
    \/ TemplateNameTaken
    \/ TemplateNameFree
    \/ TemplatesDone
    \/ FieldNameTaken
    \/ FieldNameFree
    \/ FieldsDone
    \/ NotetypeNameTaken
    \/ NotetypeNameFree
    \/ NotetypeNameLookupFails
    \/ AddNewNotetype

(* The thread that runs the loops is not suspended for ever. *)
SpecRepair == InitRepair /\ [][NextRepair]_vars /\ WF_vars(NextRepair)

(* The names the loops work on. *)
RepairedNames(n) == <<n.name>> \o TemplateNames(n) \o FieldNames(n)

(* The pass now to be made finds its name taken. *)
Colliding ==
    \/ /\ pc = "templates"
       /\ res.idx <= Len(nt.templates)
       /\ UniCase(nt.templates[res.idx].name) \in res.names
    \/ /\ pc = "fields"
       /\ res.idx <= Len(nt.fields)
       /\ UniCase(nt.fields[res.idx].name) \in res.names
    \/ /\ pc = "notetype"
       /\ storage_get_notetype_id(storage, nt.name).some
       /\ storage_get_notetype_id(storage, nt.name).v # nt.id

(* One name grew by one '+', the others are as they were. *)
OneNameLengthened ==
    \E i \in 1..Len(RepairedNames(nt)) :
        /\ RepairedNames(nt')[i] = Append(RepairedNames(nt)[i], "+")
        /\ \A j \in 1..Len(RepairedNames(nt)) :
               j # i => RepairedNames(nt')[j] = RepairedNames(nt)[j]

(* C16: the loops of ensure_names_unique and the loop of                    *)
(* ensure_notetype_name_unique are left after finitely many passes; every   *)
(* pass that finds the name taken lengthens that name by one '+', or is     *)
(* the storage lookup failing; and the result is Ok unless the lookup       *)
(* failed, the names being those the functions compute.                     *)
C16_RepairTerminates ==
    /\ <>(pc = "done")
    /\ [][/\ Colliding => (OneNameLengthened \/ res'.err = "DbError")
          /\ ~Colliding => RepairedNames(nt') = RepairedNames(nt)]_vars
    /\ [](pc = "done" =>
              /\ res.err \in {"Ok", "DbError"}
              /\ [nt EXCEPT !.name = nt0.name, !.mtime_secs = 0, !.usn = 0]
                     = ensure_names_unique(nt0)
              /\ res.err = "Ok" =>
                     nt = ensure_notetype_name_unique(
                              storage, ensure_names_unique(nt0), ColUsn, clock))

(* Fields a, A, a+ became a, A+, a++, and the name s, taken by S of         *)
(* notetype 1, became s+ and then, taken by S+ of notetype 2, s++.          *)
C16_Witness ==
    /\ pc = "done"
    /\ res.err = "Ok"
    /\ FieldNames(nt0) = <<<<"a">>, <<"A">>, <<"a", "+">>>>
    /\ FieldNames(nt) = <<<<"a">>, <<"A", "+">>, <<"a", "+", "+">>>>
    /\ nt0.name = <<"s">>
    /\ nt0.id = 0
    /\ nt.name = <<"s", "+", "+">>
    /\ DOMAIN storage.notetypes = {1, 2}

----------------------------------------------------------------------------
(* The stored requirement of template i is what the analyzer yields for    *)
(* the stored question format and the stored fields.                        *)
ReqMatchesTemplate(i) ==
    /\ nt.config.reqs[i].kind = Analyse(nt, i).kind
    /\ nt.config.reqs[i].field_ords = Analyse(nt, i).field_ords

ReqsWellFormed ==
    /\ Len(nt.config.reqs) = Len(nt.templates)
    /\ \A i \in 1..Len(nt.config.reqs) :
           /\ nt.config.reqs[i].card_ord = i - 1
           /\ \A j, k \in 1..Len(nt.config.reqs[i].field_ords) :
                  j < k => nt.config.reqs[i].field_ords[j] < nt.config.reqs[i].field_ords[k]

(* C17: after every successful prepare_for_update, also one that renamed    *)
(* or removed fields, config.reqs has one entry per template, with card_ord *)
(* the template's index and field_ords sorted, and each entry is the        *)
(* requirement of the template's final question format against the final    *)
(* fields.                                                                  *)
C17_ReqsMatchStoredTemplates ==
    (pc = "prepared" /\ res.err = "Ok") =>
        /\ ReqsWellFormed
        /\ \A i \in 1..Len(nt.templates) : ReqMatchesTemplate(i)

(* What holds of config.reqs: the shape always, the agreement with the      *)
(* final formats when no field was renamed or removed.                      *)
C17_ReqsOfUnchangedFields ==
    (pc = "prepared" /\ res.err = "Ok") =>
        /\ ReqsWellFormed
        /\ MappingEmpty => \A i \in 1..Len(nt.templates) : ReqMatchesTemplate(i)

----------------------------------------------------------------------------
(* A call that returned an error left the tables as it found them. *)
RolledBack == res.err # "Ok" => Tables(storage) = Tables(before.storage)

(* C18: whatever get_notetype, get_notetype_by_name, add_notetype,          *)
(* update_notetype and remove_notetype calls were made, and wherever a      *)
(* failing one was rolled back, every entry of notetype_cache is the        *)
(* notetype now persisted under its id: none for an id that is not          *)
(* persisted, none for the id a remove_notetype was called with, none of a  *)
(* version that a rolled back call had written.                             *)
C18_CacheEntriesPersisted ==
    /\ DOMAIN cache \subseteq DOMAIN storage.notetypes
    /\ \A ntid \in DOMAIN cache : cache[ntid] = storage_get_notetype(storage, ntid).v
    /\ (res.op = "remove" /\ res.fail # "set_schema_modified") =>
           res.arg \notin DOMAIN cache
    /\ res.op \in {"add", "update", "remove"} =>
           /\ RolledBack
           /\ \A ntid \in DOMAIN cache :
                  ntid \in DOMAIN before.cache \/ (res.op = "update" /\ ntid = res.arg)
    /\ res.op = "get_by_name" =>
           IF res.value.some
           THEN /\ UniCase(res.value.v.name) = UniCase(res.arg)
                /\ cache[res.value.v.id] = res.value.v
           ELSE cache = before.cache

(* Notetype 1 was cached by get_notetype_by_name; an update_notetype that   *)
(* wrote the three tables and removed the entry failed to commit: the       *)
(* tables are as before, the cache holds nothing for 1.                     *)
C18_Witness ==
    /\ res.op = "update"
    /\ res.fail = "commit"
    /\ res.err = "DbError"
    /\ res.arg = 1
    /\ 1 \in DOMAIN before.cache
    /\ 1 \notin DOMAIN cache
    /\ PreparedUpdate.nt.name # Persisted(storage, 1).v.name
    /\ Tables(storage) = Tables(before.storage)

----------------------------------------------------------------------------
(* The first caller's update was committed, stamped with the time of the    *)
(* call.                                                                    *)
FirstCommitted == res.first.err = "Ok" /\ ~res.first.preserve_usn

SecondRejected ==
    /\ res.err = "InvalidInput"
    /\ res.info = "attempt to save stale notetype"
    /\ Tables(storage) = Tables(before.storage)

(* C19: of two callers that copied the same persisted version and call      *)
(* update_notetype without preserve_usn, the second is rejected as stale    *)
(* and what the first committed stays persisted, whatever the edits and     *)
(* whatever the clock returned at the two calls.                            *)
C19_SecondWriterRejected ==
    (pc = "second written" /\ FirstCommitted) => SecondRejected

(* What holds: the second is rejected when the first call's stamp is later  *)
(* than the time the copied version carries.                                *)
C19_RejectedAfterLaterStamp ==
    (/\ pc = "second written"
     /\ FirstCommitted
     /\ before.storage.notetypes[held.v.id].mtime_secs > held.v.mtime_secs) =>
        SecondRejected

(* What the first call persisted is what the second call persisted. *)
SamePersisted ==
    LET first == Persisted(before.storage, nt0.id).v
        second == Persisted(storage, nt0.id).v
    IN  /\ second.name = first.name
        /\ second.fields = first.fields
        /\ [i \in 1..Len(second.templates) |->
               <<second.templates[i].q_format, second.templates[i].a_format>>]
             = [i \in 1..Len(first.templates) |->
                   <<first.templates[i].q_format, first.templates[i].a_format>>]
        /\ second.config.sort_field_idx = first.config.sort_field_idx
        /\ second.config.reqs = first.config.reqs

(* C20: update_notetype called again with the object a successful           *)
(* update_notetype left, its fields carrying the ordinals they had before   *)
(* the first call, succeeds and persists the name, fields, template         *)
(* formats, sort_field_idx and requirements the first call persisted.       *)
C20_UpdateAgainSame ==
    pc = "updated again" => (res.err = "Ok" /\ SamePersisted)

(* What holds: the second call succeeds, and persists the same when the     *)
(* first call neither renamed nor removed nor moved a field.                *)
C20_SameWhenFieldsKept ==
    pc = "updated again" =>
        /\ res.err = "Ok"
        /\ (\A i \in 1..Len(nt0.fields) :
                /\ nt0.fields[i].ord = i - 1
                /\ nt0.fields[i].name = held.v.fields[i].name) => SamePersisted

====
